---------------------------- MODULE Spec2Model ----------------------------
(***************************************************************************)
(* A model of the plot viewer of src/src/lib.rs (struct Graph): its view   *)
(* state, the per-frame input pass (keybinds), the render pass (plot) as   *)
(* far as it changes state or selects samples, the 2D coordinate           *)
(* transform and the 3D segment clip.                                      *)
(*                                                                         *)
(* f32 values are modelled as exact rationals <<n, d>> (d > 0, lowest      *)
(* terms): sums, products and quotients are those of the code without the  *)
(* rounding of f32.  Option<T> is <<>> (None) or <<v>> (Some(v)).          *)
(***************************************************************************)
EXTENDS Integers, Sequences, FiniteSets, TLC

VARIABLES
    graph,      \* the Graph struct (src/src/lib.rs:35-67), a record of its fields
    panic,      \* "none", or the panic that aborted the program
    profile,    \* "debug" (overflow checks on) or "release" (usize arithmetic wraps)
    out,        \* what the last frame's render pass did (samples visited, colour passes)
    run,        \* history: the mode-cycle presses since the last other operation
    frames,     \* number of frames processed so far
    probe       \* the last pure-function call: its inputs and its results

vars == <<graph, panic, profile, out, run, frames, probe>>

-----------------------------------------------------------------------------
(* Exact rational arithmetic standing for f32.                             *)

Abs(a) == IF a < 0 THEN -a ELSE a

Min(a, b) == IF a <= b THEN a ELSE b

RECURSIVE GCD(_, _)
GCD(a, b) == IF b = 0 THEN a ELSE GCD(b, a % b)

R(n, d) ==
    LET g == GCD(Abs(n), Abs(d))
        s == IF d < 0 THEN -1 ELSE 1
    IN  <<(s * n) \div g, (s * d) \div g>>

I(n) == <<n, 1>>

RNeg(a) == <<-a[1], a[2]>>

RAdd(a, b) ==
    LET g == GCD(a[2], b[2])
    IN  R(a[1] * (b[2] \div g) + b[1] * (a[2] \div g), (a[2] \div g) * b[2])

RSub(a, b) == RAdd(a, RNeg(b))

RMul(a, b) ==
    LET g1 == GCD(Abs(a[1]), b[2])
        g2 == GCD(Abs(b[1]), a[2])
    IN  <<(a[1] \div g1) * (b[1] \div g2), (a[2] \div g2) * (b[2] \div g1)>>

RInv(a) == IF a[1] < 0 THEN <<-a[2], -a[1]>> ELSE <<a[2], a[1]>>

RDiv(a, b) == RMul(a, RInv(b))

RLt(a, b) == a[1] * b[2] < b[1] * a[2]

RLe(a, b) == a[1] * b[2] <= b[1] * a[2]

RAbs(a) == <<Abs(a[1]), a[2]>>

\* f32::round: to the nearest integer, halves away from zero
RRound(a) ==
    IF a[1] >= 0
    THEN (2 * a[1] + a[2]) \div (2 * a[2])
    ELSE -((2 * (-a[1]) + a[2]) \div (2 * a[2]))

\* truncation toward zero, as in `as usize` / fmod
RTrunc(a) == IF a[1] >= 0 THEN a[1] \div a[2] ELSE -((-a[1]) \div a[2])

\* Rust's `%` on f32: the remainder has the sign of the dividend
FRem(a, m) == RSub(a, RMul(m, I(RTrunc(RDiv(a, m)))))

RECURSIVE Pow2(_)
Pow2(k) == IF k = 0 THEN 1 ELSE 2 * Pow2(k - 1)

\* 2.0f32.powi(k)
Powi2(k) == IF k >= 0 THEN <<Pow2(k), 1>> ELSE <<1, Pow2(-k)>>

None == <<>>
Some(v) == <<v>>
IsSome(o) == o # <<>>
Unwrap(o) == o[1]

\* the f32 constants PI and TAU = 2 * PI, PI taken as the dyadic 201/64
PI == <<201, 64>>
TAU == <<201, 32>>

Vec2(x, y) == [x |-> x, y |-> y]
Vec3(x, y, z) == [x |-> x, y |-> y, z |-> z]
V2Add(a, b) == Vec2(RAdd(a.x, b.x), RAdd(a.y, b.y))
V2Sub(a, b) == Vec2(RSub(a.x, b.x), RSub(a.y, b.y))
V2Scale(a, k) == Vec2(RMul(a.x, k), RMul(a.y, k))
V2Div(a, k) == Vec2(RDiv(a.x, k), RDiv(a.y, k))
Get2d(v) == Vec2(v.x, v.y)
V3AddAssign2(v, d) == [v EXCEPT !.x = RAdd(@, d.x), !.y = RAdd(@, d.y)]
V3SubAssign2(v, d) == [v EXCEPT !.x = RSub(@, d.x), !.y = RSub(@, d.y)]
V3Add(a, b) == Vec3(RAdd(a.x, b.x), RAdd(a.y, b.y), RAdd(a.z, b.z))
V3Sub(a, b) == Vec3(RSub(a.x, b.x), RSub(a.y, b.y), RSub(a.z, b.z))
V3Scale(a, k) == Vec3(RMul(a.x, k), RMul(a.y, k), RMul(a.z, k))

-----------------------------------------------------------------------------
(* Sample model.                                                           *)

CReal(y) == [t |-> "Real", y |-> y, z |-> I(0)]
CImag(z) == [t |-> "Imag", y |-> I(0), z |-> z]
CComplex(y, z) == [t |-> "Complex", y |-> y, z |-> z]

to_options(c) ==
    CASE c.t = "Real" -> <<Some(c.y), None>>
      [] c.t = "Imag" -> <<None, Some(c.z)>>
      [] OTHER -> <<Some(c.y), Some(c.z)>>

Width(data, start, end) ==
    [type |-> "Width", data |-> data, start |-> start, end |-> end]
Coord(data) == [type |-> "Coord", data |-> data]
Width3D(data, sx, sy, ex, ey) ==
    [type |-> "Width3D", data |-> data,
     start_x |-> sx, start_y |-> sy, end_x |-> ex, end_y |-> ey]
Coord3D(data) == [type |-> "Coord3D", data |-> data]

is_3d(data) == \E k \in 1..Len(data) : data[k].type \in {"Width3D", "Coord3D"}


-----------------------------------------------------------------------------
(* The Graph struct and its public operations.                             *)

\* 3.0f32.sqrt() and 2.0f32.sqrt(), taken as the dyadics 443/256 and 181/128
SQRT3 == <<443, 256>>
SQRT2 == <<181, 128>>

GraphNew(data, start, end) ==
    [data |-> data,
     cache |-> None,
     start |-> start,
     end |-> end,
     offset |-> Vec3(I(0), I(0), I(0)),
     theta |-> RDiv(PI, I(6)),
     phi |-> RDiv(PI, I(6)),
     slice |-> 0,
     show |-> "Complex",
     zoom |-> I(1),
     screen |-> Vec2(I(0), I(0)),
     screen_offset |-> Vec2(I(0), I(0)),
     delta |-> I(0),
     view_x |-> FALSE,
     box_size |-> SQRT3,
     anti_alias |-> TRUE,
     lines |-> TRUE,
     last_interact |-> None,
     mouse_position |-> None,
     mouse_moved |-> FALSE,
     scale_axis |-> FALSE,
     disable_lines |-> FALSE,
     disable_axis |-> FALSE,
     disable_coord |-> FALSE,
     graph_mode |-> "Normal",
     is_3d |-> is_3d(data)]

\* The mutant of set_data: the cached texture is kept
set_data_keep_cache(g, data) ==
    [g EXCEPT !.data = data, !.is_3d = is_3d(data)]

set_data(g, data) ==
    [g EXCEPT !.data = data, !.cache = None, !.is_3d = is_3d(data)]

clear_data(g) == [g EXCEPT !.data = <<>>, !.cache = None]

push_data(g, d) ==
    LET nd == Append(g.data, d) IN [g EXCEPT !.data = nd, !.is_3d = is_3d(nd)]

set_anti_alias(g, aa) == [g EXCEPT !.anti_alias = aa]

\* The mutant of set_mode: only DomainColoring forces 2D
set_mode_slice_from_data(g, mode) ==
    [g EXCEPT !.is_3d = IF mode = "DomainColoring" THEN FALSE ELSE is_3d(g.data),
              !.graph_mode = mode]

set_mode(g, mode) ==
    [g EXCEPT !.is_3d = IF mode \in {"DomainColoring", "Slice"}
                          THEN FALSE
                          ELSE is_3d(g.data),
              !.graph_mode = mode]

GraphModes ==
    {"Normal", "Slice", "SliceFlatten", "SliceDepth", "DomainColoring",
     "Flatten", "Depth"}

-----------------------------------------------------------------------------
(* The 2D coordinate transform.                                            *)

to_screen(g, x, y) ==
    V2Scale(
        V2Add(V2Add(V2Div(V2Scale(Vec2(x, RNeg(y)), g.screen.x),
                          RSub(g.end, g.start)),
                    g.screen_offset),
              Get2d(g.offset)),
        g.zoom)

\* The mutant of to_coord: the y axis is not flipped back
to_coord_no_flip(g, p) ==
    V2Div(V2Scale(V2Sub(V2Sub(V2Div(p, g.zoom), Get2d(g.offset)),
                        g.screen_offset),
                  RSub(g.end, g.start)),
          g.screen.x)

to_coord(g, p) ==
    LET q == V2Div(V2Scale(V2Sub(V2Sub(V2Div(p, g.zoom), Get2d(g.offset)),
                                 g.screen_offset),
                           RSub(g.end, g.start)),
                   g.screen.x)
    IN  [q EXCEPT !.y = RMul(@, I(-1))]

-----------------------------------------------------------------------------
(* The input pass: Graph::keybinds.  The working record w holds the fields *)
(* of the Graph plus `panic`; inp is one frame's input:                    *)
(*   primary_down   the primary button is down and was pressed earlier     *)
(*   interact       pointer.interact_pos()                                 *)
(*   multi          multi_touch(): None or [zoom_delta, translation_delta] *)
(*   shift          modifiers.shift                                        *)
(*   keys           the keys for which key_pressed holds                   *)
(*   scroll         raw_scroll_delta                                       *)
(*   latest_pos     pointer.latest_pos()                                   *)
(*   rect           the size of ctx.available_rect()                       *)

NoInput ==
    [primary_down |-> FALSE, interact |-> None, multi |-> None,
     shift |-> FALSE, keys |-> {}, scroll |-> Vec2(I(0), I(0)),
     latest_pos |-> None, rect |-> Vec2(I(0), I(0))]

\* A step applies only while the program has not panicked
Live(w) == w.panic = "none"

\* phi and theta advanced by a pixel delta / 512, modulo TAU
Rotate(w, dx, dy) ==
    [w EXCEPT !.phi = FRem(RAdd(w.phi, RDiv(dx, I(512))), TAU),
              !.theta = FRem(RAdd(w.theta, RDiv(dy, I(512))), TAU)]

DragStep(w, inp) ==
    LET w1 == IF inp.primary_down /\ inp.multi = None
                 /\ IsSome(inp.interact) /\ IsSome(w.last_interact)
              THEN LET delta == V2Sub(Unwrap(inp.interact), Unwrap(w.last_interact))
                   IN  IF w.is_3d
                       THEN Rotate(w, delta.x, delta.y)
                       ELSE [w EXCEPT !.offset = V3AddAssign2(@, V2Div(delta, w.zoom))]
              ELSE w
    IN  [w1 EXCEPT !.last_interact = inp.interact]

\* unwrap() of an absent mouse_position panics
AnchorMissing(w) == w.mouse_moved /\ ~w.is_3d /\ w.mouse_position = None

\* The anchor of a 2D zoom step: the pointer once it has moved, else screen_offset
Anchor(w) ==
    IF w.mouse_moved /\ ~w.is_3d
    THEN Unwrap(w.mouse_position)
    ELSE w.screen_offset

\* The guard of a zoom-in step
ZoomInAllowed(zoom) == RLe(zoom, Powi2(12))

\* The guard of a zoom-out step
ZoomOutAllowed(zoom) == RLe(Powi2(-12), zoom)

\* zoom *= rt, then offset -= anchor / zoom * (rt - 1)
ZoomIn(w, rt) ==
    IF AnchorMissing(w)
    THEN [w EXCEPT !.zoom = RMul(w.zoom, rt), !.panic = "unwrap_none"]
    ELSE LET z == RMul(w.zoom, rt)
         IN  [w EXCEPT !.zoom = z,
                       !.offset = V3SubAssign2(@,
                            V2Scale(V2Div(Anchor(w), z), RSub(rt, I(1))))]

\* offset += anchor / zoom * (factor - 1), then zoom = newzoom
ZoomOut(w, factor, newzoom) ==
    IF AnchorMissing(w)
    THEN [w EXCEPT !.panic = "unwrap_none"]
    ELSE [w EXCEPT !.offset = V3AddAssign2(@,
                        V2Scale(V2Div(Anchor(w), w.zoom), RSub(factor, I(1)))),
                   !.zoom = newzoom]

PinchStep(w, inp) ==
    IF inp.multi = None
    THEN w
    ELSE LET m == Unwrap(inp.multi)
             zd == m.zoom_delta
             w1 == CASE RLt(I(1), zd) /\ ZoomInAllowed(w.zoom) ->
                          IF w.is_3d
                          THEN [w EXCEPT !.box_size = RMul(@, zd)]
                          ELSE ZoomIn(w, zd)
                     [] RLt(zd, I(1)) /\ ZoomOutAllowed(w.zoom) ->
                          IF w.is_3d
                          THEN [w EXCEPT !.box_size = RMul(@, zd)]
                          ELSE ZoomOut(w, RInv(zd), RMul(w.zoom, zd))
                     [] OTHER -> w
         IN  IF w1.panic # "none"
             THEN w1
             ELSE IF w1.is_3d
                  THEN Rotate(w1, m.translation_delta.x, m.translation_delta.y)
                  ELSE [w1 EXCEPT !.offset =
                            V3AddAssign2(@, V2Div(m.translation_delta, w1.zoom))]

\* (a, b, c) of keybinds: the pan step, the snap angle and the slice step
PanStep(w, inp) ==
    LET div == IF RLt(I(1), w.zoom) THEN RMul(I(2), w.zoom) ELSE I(1)
    IN  IF inp.shift
        THEN RDiv(RMul(I(4), w.delta), div)
        ELSE RDiv(w.delta, div)

SnapAngle(inp) == IF inp.shift THEN RDiv(PI, I(16)) ELSE RDiv(PI, I(64))

SliceStep(inp) == IF inp.shift THEN 4 ELSE 1

\* ((angle / b + dir).round() * b) % TAU
Snap(angle, b, dir) ==
    FRem(RMul(I(RRound(RAdd(RDiv(angle, b), I(dir)))), b), TAU)

Pressed(inp, ks) == inp.keys \cap ks # {}

KeyLeftStep(w, inp) ==
    IF Pressed(inp, {"A", "ArrowLeft"})
    THEN IF w.is_3d
         THEN [w EXCEPT !.phi = Snap(@, SnapAngle(inp), -1)]
         ELSE [w EXCEPT !.offset.x = RAdd(@, PanStep(w, inp))]
    ELSE w

KeyRightStep(w, inp) ==
    IF Pressed(inp, {"D", "ArrowRight"})
    THEN IF w.is_3d
         THEN [w EXCEPT !.phi = Snap(@, SnapAngle(inp), 1)]
         ELSE [w EXCEPT !.offset.x = RSub(@, PanStep(w, inp))]
    ELSE w

KeyUpStep(w, inp) ==
    IF Pressed(inp, {"W", "ArrowUp"})
    THEN IF w.is_3d
         THEN [w EXCEPT !.theta = Snap(@, SnapAngle(inp), -1)]
         ELSE [w EXCEPT !.offset.y = RAdd(@, PanStep(w, inp))]
    ELSE w

KeyDownStep(w, inp) ==
    IF Pressed(inp, {"S", "ArrowDown"})
    THEN IF w.is_3d
         THEN [w EXCEPT !.theta = Snap(@, SnapAngle(inp), 1)]
         ELSE [w EXCEPT !.offset.y = RSub(@, PanStep(w, inp))]
    ELSE w

\* Z, X, C, V and R
ToggleStep(w, inp) ==
    LET flip(v, k) == IF k \in inp.keys THEN ~v ELSE v
    IN  [w EXCEPT !.disable_lines = flip(@, "Z"),
                  !.disable_axis = flip(@, "X"),
                  !.disable_coord = flip(@, "C"),
                  !.scale_axis = flip(@, "V"),
                  !.anti_alias = flip(@, "R"),
                  !.cache = IF "R" \in inp.keys THEN None ELSE @]

\* the f32 literal 0.1
TENTH == <<1, 10>>

BoxSnap(b) ==
    LET b1 == IF RLt(RAbs(RSub(b, I(1))), TENTH) THEN I(1) ELSE b
        b2 == IF RLt(RAbs(RSub(b1, SQRT2)), TENTH) THEN SQRT2 ELSE b1
    IN  IF RLt(RAbs(RSub(b2, SQRT3)), TENTH) THEN SQRT3 ELSE b2

\* F, G, Semicolon and Quote (3D only)
Keys3dStep(w, inp) ==
    IF ~w.is_3d
    THEN w
    ELSE LET z1 == IF "F" \in inp.keys THEN RAdd(w.offset.z, I(1)) ELSE w.offset.z
             z2 == IF "G" \in inp.keys THEN RSub(z1, I(1)) ELSE z1
             semi == "Semicolon" \in inp.keys /\ RLt(TENTH, w.box_size)
             b1 == IF semi THEN RSub(w.box_size, TENTH) ELSE w.box_size
             b2 == IF "Quote" \in inp.keys THEN RAdd(b1, TENTH) ELSE b1
             changed == semi \/ "Quote" \in inp.keys
         IN  [w EXCEPT !.offset.z = z2,
                       !.box_size = IF changed THEN BoxSnap(b2) ELSE b2]

SaturatingSub(a, b) == IF a >= b THEN a - b ELSE 0

\* Period, Comma, Slash, L and I
SliceKeysStep(w, inp) ==
    LET s1 == IF "Period" \in inp.keys THEN w.slice + SliceStep(inp) ELSE w.slice
        s2 == IF "Comma" \in inp.keys THEN SaturatingSub(s1, SliceStep(inp)) ELSE s1
    IN  [w EXCEPT !.slice = s2,
                  !.view_x = IF "Slash" \in inp.keys THEN ~@ ELSE @,
                  !.lines = IF "L" \in inp.keys THEN ~@ ELSE @,
                  !.show = IF "I" \in inp.keys
                           THEN CASE @ = "Complex" -> "Real"
                                  [] @ = "Real" -> "Imag"
                                  [] OTHER -> "Complex"
                           ELSE @]

\* The mutant of ModeForward: Normal in 2D enters Flatten as a 3D mode
ModeForwardFlatten3d(mode, is3d) ==
    CASE mode = "Normal" -> IF is3d THEN <<"Slice", FALSE>> ELSE <<"Flatten", TRUE>>
      [] mode = "Slice" -> <<"SliceFlatten", is3d>>
      [] mode = "SliceFlatten" -> <<"SliceDepth", TRUE>>
      [] mode = "SliceDepth" -> <<"DomainColoring", FALSE>>
      [] mode = "Flatten" -> <<"Depth", TRUE>>
      [] mode = "Depth" -> <<"Normal", FALSE>>
      [] OTHER -> <<"Normal", TRUE>>

\* The arms of Key::B without shift: the next (graph_mode, is_3d)
ModeForward(mode, is3d) ==
    CASE mode = "Normal" -> IF is3d THEN <<"Slice", FALSE>> ELSE <<"Flatten", is3d>>
      [] mode = "Slice" -> <<"SliceFlatten", is3d>>
      [] mode = "SliceFlatten" -> <<"SliceDepth", TRUE>>
      [] mode = "SliceDepth" -> <<"DomainColoring", FALSE>>
      [] mode = "Flatten" -> <<"Depth", TRUE>>
      [] mode = "Depth" -> <<"Normal", FALSE>>
      [] OTHER -> <<"Normal", TRUE>>

\* The arms of Key::B with shift
ModeBackward(mode, is3d) ==
    CASE mode = "Normal" ->
            IF is3d THEN <<"DomainColoring", FALSE>> ELSE <<"Depth", TRUE>>
      [] mode = "Slice" -> <<"Normal", TRUE>>
      [] mode = "SliceDepth" -> <<"SliceFlatten", FALSE>>
      [] mode = "SliceFlatten" -> <<"Slice", is3d>>
      [] mode = "Flatten" -> <<"Normal", is3d>>
      [] mode = "DomainColoring" -> <<"SliceDepth", TRUE>>
      [] OTHER -> <<"Flatten", FALSE>>

ModeStep(w, inp) ==
    IF "B" \in inp.keys
    THEN LET r == IF inp.shift
                  THEN ModeBackward(w.graph_mode, w.is_3d)
                  ELSE ModeForward(w.graph_mode, w.is_3d)
         IN  [w EXCEPT !.graph_mode = r[1], !.is_3d = r[2]]
    ELSE w

\* Q: zoom out by rt = 2
KeyQStep(w, inp) ==
    IF "Q" \in inp.keys /\ ZoomOutAllowed(w.zoom)
    THEN ZoomOut(w, I(2), RDiv(w.zoom, I(2)))
    ELSE w

\* E: zoom in by rt = 2
KeyEStep(w, inp) ==
    IF "E" \in inp.keys /\ ZoomInAllowed(w.zoom)
    THEN ZoomIn(w, I(2))
    ELSE w

\* raw_scroll_delta: rotation in 3D, zoom by rt = 1 + y / 512 in 2D
ScrollStep(w, inp) ==
    IF w.is_3d
    THEN Rotate(w, inp.scroll.x, inp.scroll.y)
    ELSE LET rt == RAdd(I(1), RDiv(inp.scroll.y, I(512)))
         IN  CASE RLt(I(1), rt) /\ ZoomInAllowed(w.zoom) -> ZoomIn(w, rt)
               [] RLt(rt, I(1)) /\ ZoomOutAllowed(w.zoom) ->
                      ZoomOut(w, RInv(rt), RMul(w.zoom, rt))
               [] OTHER -> w

\* The mutant of ResetStep: the pointer position survives the reset
ResetStepKeepsPointer(w, inp) ==
    IF "T" \in inp.keys
    THEN [w EXCEPT !.offset = Vec3(I(0), I(0), I(0)),
                   !.zoom = I(1),
                   !.theta = RDiv(PI, I(6)),
                   !.phi = RDiv(PI, I(6)),
                   !.box_size = SQRT3,
                   !.mouse_moved = FALSE]
    ELSE w

\* T: reset of the view
ResetStep(w, inp) ==
    IF "T" \in inp.keys
    THEN [w EXCEPT !.offset = Vec3(I(0), I(0), I(0)),
                   !.zoom = I(1),
                   !.theta = RDiv(PI, I(6)),
                   !.phi = RDiv(PI, I(6)),
                   !.box_size = SQRT3,
                   !.mouse_position = None,
                   !.mouse_moved = FALSE]
    ELSE w

\* The mutant of PointerStep: the first sample already counts as a move
PointerStepMovesAtOnce(w, inp) ==
    IF IsSome(inp.latest_pos)
    THEN IF inp.latest_pos # w.mouse_position
         THEN [w EXCEPT !.mouse_moved = TRUE, !.mouse_position = inp.latest_pos]
         ELSE w
    ELSE w

\* pointer tracking from latest_pos
PointerStep(w, inp) ==
    IF IsSome(inp.latest_pos)
    THEN IF IsSome(w.mouse_position)
         THEN IF inp.latest_pos # w.mouse_position
              THEN [w EXCEPT !.mouse_moved = TRUE, !.mouse_position = inp.latest_pos]
              ELSE w
         ELSE [w EXCEPT !.mouse_position = inp.latest_pos]
    ELSE w

\* Graph::keybinds: the steps in source order
keybinds(w, inp) ==
    CHOOSE r \in
    {IF Live(w14) THEN PointerStep(w14, inp) ELSE w14 : w14 \in
    {IF Live(w13) THEN ResetStep(w13, inp) ELSE w13 : w13 \in
    {IF Live(w12) THEN ScrollStep(w12, inp) ELSE w12 : w12 \in
    {IF Live(w11) THEN KeyEStep(w11, inp) ELSE w11 : w11 \in
    {IF Live(w10) THEN KeyQStep(w10, inp) ELSE w10 : w10 \in
    {IF Live(w9) THEN ModeStep(w9, inp) ELSE w9 : w9 \in
    {IF Live(w8) THEN SliceKeysStep(w8, inp) ELSE w8 : w8 \in
    {IF Live(w7) THEN Keys3dStep(w7, inp) ELSE w7 : w7 \in
    {IF Live(w6) THEN ToggleStep(w6, inp) ELSE w6 : w6 \in
    {IF Live(w5) THEN KeyDownStep(w5, inp) ELSE w5 : w5 \in
    {IF Live(w4) THEN KeyUpStep(w4, inp) ELSE w4 : w4 \in
    {IF Live(w3) THEN KeyRightStep(w3, inp) ELSE w3 : w3 \in
    {IF Live(w2) THEN KeyLeftStep(w2, inp) ELSE w2 : w2 \in
    {IF Live(w1) THEN PinchStep(w1, inp) ELSE w1 : w1 \in
    {IF Live(w0) THEN DragStep(w0, inp) ELSE w0 : w0 \in
    {w}}}}}}}}}}}}}}}} : TRUE

\* plot_main: screen, delta and screen_offset, set after keybinds
ScreenMetrics(w, inp) ==
    LET screen == inp.rect
        side == IF w.is_3d
                THEN (IF RLe(screen.x, screen.y) THEN screen.x ELSE screen.y)
                ELSE screen.x
        delta == RDiv(side, RSub(w.end, w.start))
    IN  [w EXCEPT !.screen = screen,
                  !.delta = delta,
                  !.screen_offset =
                      Vec2(RSub(RDiv(screen.x, I(2)),
                                RDiv(RMul(delta, RAdd(w.start, w.end)), I(2))),
                           RDiv(screen.y, I(2)))]

-----------------------------------------------------------------------------
(* The colour mapper.  The library functions sin, atan2, hypot and powf    *)
(* are evaluated on the sample points the model uses: coordinates that are *)
(* multiples of 1/2 and directions that are multiples of PI/4.             *)

\* (x * PI).sin() for x a multiple of 1/2
SinPi(x) ==
    IF x[2] = 1 THEN I(0)
    ELSE IF x[1] % 4 = 1 THEN I(1) ELSE I(-1)

\* y.atan2(x) / PI for a direction that is a multiple of PI/4
Atan2OverPi(y, x) ==
    CASE y[1] = 0 -> IF x[1] >= 0 THEN I(0) ELSE I(1)
      [] x[1] = 0 -> IF y[1] > 0 THEN <<1, 2>> ELSE <<-1, 2>>
      [] x[1] > 0 /\ y[1] > 0 -> <<1, 4>>
      [] x[1] < 0 /\ y[1] > 0 -> <<3, 4>>
      [] x[1] < 0 /\ y[1] < 0 -> <<-3, 4>>
      [] OTHER -> <<-1, 4>>

RECURSIVE IsqrtIn(_, _, _)
IsqrtIn(n, lo, hi) ==
    IF lo >= hi THEN lo
    ELSE LET mid == (lo + hi + 1) \div 2
         IN  IF mid * mid <= n THEN IsqrtIn(n, mid, hi) ELSE IsqrtIn(n, lo, mid - 1)

\* usize::isqrt: the floor of the square root
isqrt(n) == IsqrtIn(n, 0, Min(n, 46340))

\* x.hypot(y), rounded down to a multiple of 1/1024
Hypot(x, y) ==
    LET s == RAdd(RMul(x, x), RMul(y, y))
    IN  R(isqrt((s[1] * 1048576) \div s[2]), 1024)

\* v.powf(0.125) for v in {0, 1}
PowEighth(v) == v

\* f32::fract
Fract(x) == RSub(x, I(RTrunc(x)))

\* The mutant of ToU8: the channel is rounded to the nearest integer
ToU8Rounded(c) ==
    LET t == RRound(RMul(I(255), c))
    IN  IF t < 0 THEN 0 ELSE IF t > 255 THEN 255 ELSE t

\* (255.0 * c) as u8: truncation toward zero, saturating
ToU8(c) ==
    LET t == RTrunc(RMul(I(255), c))
    IN  IF t < 0 THEN 0 ELSE IF t > 255 THEN 255 ELSE t

rgb2val(r, g, b) == <<ToU8(r), ToU8(g), ToU8(b)>>

hsv2rgb(hue, sat, val) ==
    IF sat = I(0)
    THEN rgb2val(val, val, val)
    ELSE LET i == hue[1] \div hue[2]
             f == RSub(hue, I(i))
             p == RMul(val, RSub(I(1), sat))
             q == RMul(val, RSub(I(1), RMul(sat, f)))
             t == RMul(val, RSub(I(1), RMul(sat, RSub(I(1), f))))
             k == (IF i < 0 THEN 0 ELSE i) % 6
         IN  CASE k = 0 -> rgb2val(val, t, p)
               [] k = 1 -> rgb2val(q, val, p)
               [] k = 2 -> rgb2val(p, val, t)
               [] k = 3 -> rgb2val(p, q, val)
               [] k = 4 -> rgb2val(t, p, val)
               [] OTHER -> rgb2val(val, p, q)

get_color(c) ==
    LET o == to_options(c)
        x == IF IsSome(o[1]) THEN Unwrap(o[1]) ELSE I(0)
        y == IF IsSome(o[2]) THEN Unwrap(o[2]) ELSE I(0)
        abs == Hypot(x, y)
        hue == RMul(I(3), RSub(I(1), Atan2OverPi(y, x)))
        sat == RDiv(RAdd(I(1), Fract(abs)), I(2))
        val == PowEighth(RAbs(RMul(SinPi(x), SinPi(y))))
    IN  hsv2rgb(hue, sat, val)

\* the rgb buffer of a grid: get_color of every sample, in order
RECURSIVE ColorBuffer(_)
ColorBuffer(data) ==
    IF data = <<>> THEN <<>> ELSE get_color(Head(data)) \o ColorBuffer(Tail(data))

\* the texture load_texture returns for the buffer
Texture(data, len, anti_alias) ==
    [size |-> <<len, len>>,
     rgb |-> ColorBuffer(data),
     options |-> IF anti_alias THEN "LINEAR" ELSE "NEAREST"]

-----------------------------------------------------------------------------
(* The render pass: Graph::plot.  It clamps `slice`, fills the texture     *)
(* cache, and visits samples; w.plotted collects, per dataset, the (loop   *)
(* index, sample) pairs handed to the drawing code or the texture handed   *)
(* to painter.image, w.colored the number of get_color evaluations and     *)
(* w.uploads the number of textures loaded.                                *)

\* the stand-in for usize::MAX, the value of 0usize - 1 when arithmetic wraps
UsizeMax == 2147483647

\* len - 1 on usize: a panic with overflow checks, a wrap without
SubOne(len, prof) ==
    IF len >= 1 THEN <<len - 1, "none">>
    ELSE IF prof = "debug" THEN <<0, "sub_overflow">> ELSE <<UsizeMax, "none">>

\* data[s * len .. (s + 1) * len], enumerated
RowSlice(data, s, len) ==
    [i \in 1..len |-> [i |-> i - 1, c |-> data[s * len + i]]]

RowInBounds(data, s, len) == (s + 1) * len <= Len(data)

\* The mutant of ColSlice: the stride is one short
ColSliceShortStride(data, s, len) ==
    LET n == IF Len(data) > s THEN (Len(data) - s + len - 1) \div len ELSE 0
    IN  [i \in 1..n |-> [i |-> i - 1, c |-> data[s + (i - 1) * (len - 1) + 1]]]

\* data.iter().skip(s).step_by(len), enumerated (len > 0)
ColSlice(data, s, len) ==
    LET n == IF Len(data) > s THEN (Len(data) - s + len - 1) \div len ELSE 0
    IN  [i \in 1..n |-> [i |-> i - 1, c |-> data[s + (i - 1) * len + 1]]]

\* data.iter().enumerate()
Enumerate(data) == [i \in 1..Len(data) |-> [i |-> i - 1, c |-> data[i]]]

\* The mutant of ClampSlice: the slice is moved to the last index
ClampSliceToLast(w, len) ==
    LET m == SubOne(len, w.profile)
    IN  IF m[2] # "none"
        THEN [w EXCEPT !.panic = m[2]]
        ELSE [w EXCEPT !.slice = m[1]]

\* self.slice = self.slice.min(len - 1)
ClampSlice(w, len) ==
    LET m == SubOne(len, w.profile)
    IN  IF m[2] # "none"
        THEN [w EXCEPT !.panic = m[2]]
        ELSE [w EXCEPT !.slice = Min(@, m[1])]

Visit(w, seq) == [w EXCEPT !.plotted = Append(@, seq)]

\* GraphMode::Slice and GraphMode::SliceFlatten of a Width3D dataset
PlotSlice(w, d) ==
    LET len == isqrt(Len(d.data))
        w1 == ClampSlice(w, len)
    IN  IF w1.panic # "none" THEN w1
        ELSE IF w1.view_x
             THEN IF RowInBounds(d.data, w1.slice, len)
                  THEN Visit(w1, RowSlice(d.data, w1.slice, len))
                  ELSE [w1 EXCEPT !.panic = "range_out_of_bounds"]
             ELSE IF len = 0
                  THEN [w1 EXCEPT !.panic = "zero_step"]
                  ELSE Visit(w1, ColSlice(d.data, w1.slice, len))

\* GraphMode::SliceDepth of a Width3D dataset
PlotSliceDepth(w, d) ==
    LET len == isqrt(Len(d.data))
        w1 == ClampSlice(w, len)
    IN  IF w1.panic # "none" THEN w1
        ELSE IF RowInBounds(d.data, w1.slice, len)
             THEN Visit(w1, RowSlice(d.data, w1.slice, len))
             ELSE [w1 EXCEPT !.panic = "range_out_of_bounds"]

\* GraphMode::DomainColoring of a Width3D dataset
PlotDomainColoring(w, d) ==
    LET len == isqrt(Len(d.data))
    IN  IF IsSome(w.cache)
        THEN Visit(w, <<[i |-> 0, image |-> Unwrap(w.cache)]>>)
        ELSE [w EXCEPT !.cache = Some(Texture(d.data, len, w.anti_alias)),
                       !.colored = @ + Len(d.data),
                       !.uploads = @ + 1,
                       !.plotted = Append(@,
                           <<[i |-> 0, image |-> Texture(d.data, len, w.anti_alias)]>>)]

\* one iteration of the loop over self.data
PlotDataset(w, d) ==
    IF d.type = "Width3D"
    THEN CASE w.graph_mode \in {"Slice", "SliceFlatten"} -> PlotSlice(w, d)
           [] w.graph_mode = "SliceDepth" -> PlotSliceDepth(w, d)
           [] w.graph_mode = "DomainColoring" -> PlotDomainColoring(w, d)
           [] OTHER -> Visit(w, Enumerate(d.data))
    ELSE Visit(w, Enumerate(d.data))

RECURSIVE PlotFrom(_, _)
PlotFrom(w, k) ==
    IF k > Len(w.data) \/ w.panic # "none"
    THEN w
    ELSE CHOOSE r \in {PlotFrom(x, k + 1) : x \in {PlotDataset(w, w.data[k])}} : TRUE

plot(w, inp) == PlotFrom(w, 1)

\* plot_main: the input pass, the screen metrics, then the render pass
plot_main(w, inp) ==
    CHOOSE r \in
    {IF Live(w2) THEN plot(w2, inp) ELSE w2 : w2 \in
    {IF Live(w1) THEN ScreenMetrics(w1, inp) ELSE w1 : w1 \in
    {IF Live(w0) THEN keybinds(w0, inp) ELSE w0 : w0 \in
    {w}}}} : TRUE

-----------------------------------------------------------------------------
(* Bounds of the model.                                                    *)

\* frames processed in the specifications that cap them
MaxFrames == 3
\* forward presses tracked in one mode-cycle run
MaxRun == 5
\* datasets held at once
MaxData == 2
\* the largest slice index a '.' press may store
MaxSlice == 5

-----------------------------------------------------------------------------
(* Operations as actions.                                                  *)

GraphFields == DOMAIN GraphNew(<<>>, I(0), I(1))

\* no pure function has been applied
NoProbe == [fn |-> "none"]

Work(g) ==
    g @@ [panic |-> "none", profile |-> profile,
          plotted |-> <<>>, colored |-> 0, uploads |-> 0]

GraphOf(w) == [f \in GraphFields |-> w[f]]

Pair(g) == <<g.graph_mode, g.is_3d>>

NoRun(g) == [base |-> Pair(g), f |-> 0, b |-> 0]

Idle(op) ==
    [op |-> op, plotted |-> <<>>, colored |-> 0, uploads |-> 0,
     cache_before |-> None, keys |-> {}, shift |-> FALSE, pre |-> <<"Normal", FALSE>>]

\* the mode-cycle run after a frame: forward presses counted, then backward ones
RunAfter(r, g, g2, inp) ==
    IF "B" \notin inp.keys
    THEN NoRun(g2)
    ELSE IF ~inp.shift
         THEN IF r.b = 0 /\ r.f < MaxRun
              THEN [r EXCEPT !.f = @ + 1]
              ELSE [base |-> Pair(g), f |-> 1, b |-> 0]
         ELSE IF r.b < r.f
              THEN [r EXCEPT !.b = @ + 1]
              ELSE NoRun(g2)

\* the cache as the render pass finds it: after the input pass
CacheAtRender(g, inp) == keybinds(Work(g), inp).cache

\* One UI frame: Graph::update -> plot_main
FrameCore(inp) ==
    /\ panic = "none"
    /\ \E w \in {plot_main(Work(graph), inp)} :
       \E g2 \in {GraphOf(w)} :
           /\ graph' = g2
           /\ panic' = w.panic
           /\ out' = [op |-> "frame", plotted |-> w.plotted, colored |-> w.colored,
                      uploads |-> w.uploads,
                      cache_before |-> CacheAtRender(graph, inp),
                      keys |-> inp.keys, shift |-> inp.shift, pre |-> Pair(graph)]
           /\ run' = RunAfter(run, graph, g2, inp)

FrameBody(inp) == FrameCore(inp) /\ UNCHANGED <<profile, probe>>

Frame(inp) == FrameBody(inp) /\ UNCHANGED frames

\* a frame of a specification that caps the number of frames
CountedFrame(inp) == frames < MaxFrames /\ FrameBody(inp) /\ frames' = frames + 1

Api(op, g2) ==
    /\ panic = "none"
    /\ graph' = g2
    /\ out' = Idle(op)
    /\ run' = NoRun(g2)
    /\ UNCHANGED <<panic, profile, frames, probe>>

SetData(data) == Api("set_data", set_data(graph, data))

ClearData == Api("clear_data", clear_data(graph))

PushData(d) == Len(graph.data) < MaxData /\ Api("push_data", push_data(graph, d))

SetMode(mode) == Api("set_mode", set_mode(graph, mode))

SetAntiAlias(aa) == Api("set_anti_alias", set_anti_alias(graph, aa))

InitWith(data, start, end) ==
    /\ graph = GraphNew(data, start, end)
    /\ panic = "none"
    /\ profile \in {"debug", "release"}
    /\ out = Idle("new")
    /\ run = NoRun(graph)
    /\ frames = 0
    /\ probe = NoProbe

-----------------------------------------------------------------------------
(* Zoom in 2D: Q, E, the scroll wheel and the pinch gesture.               *)

\* the viewport of the frames
Rect0 == Vec2(I(800), I(600))

In0 == [NoInput EXCEPT !.rect = Rect0]

Key(k) == [In0 EXCEPT !.keys = {k}]

ShiftKey(k) == [In0 EXCEPT !.keys = {k}, !.shift = TRUE]

Scroll(x, y) == [In0 EXCEPT !.scroll = Vec2(I(x), I(y))]

Pinch(zd, tx, ty) ==
    [In0 EXCEPT !.multi = Some([zoom_delta |-> zd,
                                translation_delta |-> Vec2(I(tx), I(ty))])]

PointerAt(inp, x, y) == [inp EXCEPT !.latest_pos = Some(Vec2(I(x), I(y)))]

\* the three samples [0, 1, 0] over [0, 2]
Curve1D == Width(<<CReal(I(0)), CReal(I(1)), CReal(I(0))>>, I(0), I(2))

ZoomInputs ==
    LET base == {Key("Q"), Key("E"), Scroll(0, 512), Scroll(0, -256),
                 Pinch(I(2), 0, 0), Pinch(<<1, 2>>, 0, 0), In0}
    IN  base \cup {PointerAt(inp, 100, 50) : inp \in base}

InitZoom == InitWith(<<Curve1D>>, I(-2), I(2))

NextZoom == \E inp \in ZoomInputs : Frame(inp)

SpecZoom == InitZoom /\ [][NextZoom]_vars

\* C1: in 2D, whatever zoom inputs the frames carry, 2^-12 <= zoom <= 2^12
ZoomInRange ==
    ~graph.is_3d => RLe(Powi2(-12), graph.zoom) /\ RLe(graph.zoom, Powi2(12))

-----------------------------------------------------------------------------
(* Rotation in 3D: drag, multi-touch translation, scroll and the snap keys. *)

Cloud3D == Coord3D(<<<<I(0), I(0), CReal(I(0))>>, <<I(1), I(1), CReal(I(1))>>>>)

Drag(x, y) ==
    [In0 EXCEPT !.primary_down = TRUE, !.interact = Some(Vec2(I(x), I(y))),
                !.latest_pos = Some(Vec2(I(x), I(y)))]

Hover(x, y) ==
    [In0 EXCEPT !.interact = Some(Vec2(I(x), I(y))),
                !.latest_pos = Some(Vec2(I(x), I(y)))]

RotInputs ==
    {Hover(0, 0), Drag(0, 0), Drag(512, 256), Drag(-512, -1024),
     Pinch(I(1), -256, 128), Scroll(128, -512),
     Key("A"), Key("D"), Key("W"), Key("S"),
     ShiftKey("ArrowLeft"), ShiftKey("ArrowRight"),
     ShiftKey("ArrowUp"), ShiftKey("ArrowDown")}

InitRot == InitWith(<<Cloud3D>>, I(-2), I(2))

NextRot == \E inp \in RotInputs : CountedFrame(inp)

SpecRot == InitRot /\ [][NextRot]_vars

InTurn(a) == RLe(I(0), a) /\ RLt(a, TAU)

\* C2: after any rotation input, 0 <= theta < 2*pi and 0 <= phi < 2*pi
AnglesInRange == InTurn(graph.theta) /\ InTurn(graph.phi)

-----------------------------------------------------------------------------
(* The mode cycle: B and shift+B, with set_mode, set_data and push_data.   *)

Half == <<1, 2>>

\* a 2 x 2 grid over [-2, 2] x [-2, 2]
Grid4 ==
    Width3D(<<CComplex(Half, Half), CComplex(RNeg(Half), Half),
              CReal(I(1)), CImag(Half)>>, I(-2), I(-2), I(2), I(2))

ModeDataSets == {<<Curve1D>>, <<Grid4>>}

InitMode == \E d \in ModeDataSets : InitWith(d, I(-2), I(2))

NextMode ==
    \/ Frame(Key("B"))
    \/ Frame(ShiftKey("B"))
    \/ \E m \in GraphModes : SetMode(m)
    \/ \E d \in ModeDataSets : SetData(d)
    \/ PushData(Cloud3D)

SpecMode == InitMode /\ [][NextMode]_vars

RunComplete == run.f >= 1 /\ run.b = run.f

\* C3: from every pair (graph_mode, is_3d) the view state can hold, n forward
\* presses (B) followed by n backward presses (shift+B) restore the pair
RoundTripAnyPair == RunComplete => Pair(graph) = run.base

ForwardPress == out.op = "frame" /\ "B" \in out.keys /\ ~out.shift

\* the forward edges with every documented is_3d result but that of Normal in 2D
ForwardEdgesCommon(pre, post) ==
    /\ pre = <<"Normal", TRUE>> => post = <<"Slice", FALSE>>
    /\ pre[1] = "Slice" => post[1] = "SliceFlatten"
    /\ pre[1] = "SliceFlatten" => post = <<"SliceDepth", TRUE>>
    /\ pre[1] = "SliceDepth" => post = <<"DomainColoring", FALSE>>
    /\ pre[1] = "DomainColoring" => post = <<"Normal", TRUE>>
    /\ pre[1] = "Flatten" => post = <<"Depth", TRUE>>
    /\ pre[1] = "Depth" => post = <<"Normal", FALSE>>

\* C4: a forward press realises the documented edges, Normal in 2D
\* going to Flatten with is_3d = true
ForwardEdgesDocumented ==
    ForwardPress =>
        /\ ForwardEdgesCommon(out.pre, Pair(graph))
        /\ out.pre = <<"Normal", FALSE>> => Pair(graph) = <<"Flatten", TRUE>>

\* C4, amended: the same edges, but Normal in 2D goes to Flatten with is_3d
\* left false
ForwardEdgesOfCode ==
    ForwardPress =>
        /\ ForwardEdgesCommon(out.pre, Pair(graph))
        /\ out.pre = <<"Normal", FALSE>> => Pair(graph) = <<"Flatten", FALSE>>

ForwardEdgesWitness ==
    ForwardPress /\ out.pre = <<"Normal", FALSE>> /\ graph.graph_mode = "Flatten"

-----------------------------------------------------------------------------
(* The 2D coordinate transform: to_screen and to_coord as pure functions   *)
(* of the view fields.                                                     *)

XformZooms == {Powi2(-12), <<1, 2>>, I(1), I(3), Powi2(12)}

XformDomains == {<<I(-2), I(2)>>, <<I(0), I(3)>>, <<I(2), I(-1)>>}

XformOffsets == {Vec3(I(0), I(0), I(0)), Vec3(<<5, 2>>, I(-7), I(0))}

XformRects == {Vec2(I(800), I(600)), Vec2(I(3), I(2))}

XformPoints ==
    {Vec2(I(0), I(0)), Vec2(I(1), <<-1, 2>>), Vec2(I(-3), I(7)),
     Vec2(<<1, 3>>, <<5, 7>>)}

\* a view after a frame on the given viewport, zoomed and panned
XformView(dom, rect, zoom, offset) ==
    [ScreenMetrics(GraphNew(<<Curve1D>>, dom[1], dom[2]),
                   [NoInput EXCEPT !.rect = rect])
        EXCEPT !.zoom = zoom, !.offset = offset]

InitXform ==
    /\ \E dom \in XformDomains, rect \in XformRects,
          zoom \in XformZooms, offset \in XformOffsets :
            graph = XformView(dom, rect, zoom, offset)
    /\ panic = "none"
    /\ profile \in {"debug", "release"}
    /\ out = Idle("new")
    /\ run = NoRun(graph)
    /\ frames = 0
    /\ probe = NoProbe

\* to_coord applied to the result of to_screen
RoundTrip(p) ==
    /\ probe' = [fn |-> "to_coord", p |-> p,
                 s |-> to_screen(graph, p.x, p.y),
                 c |-> to_coord(graph, to_screen(graph, p.x, p.y))]
    /\ UNCHANGED <<graph, panic, profile, out, run, frames>>

NextXform == \E p \in XformPoints : RoundTrip(p)

SpecXform == InitXform /\ [][NextXform]_vars

XformDefined ==
    /\ RLe(Powi2(-12), graph.zoom) /\ RLe(graph.zoom, Powi2(12))
    /\ graph.end # graph.start
    /\ RLt(I(0), graph.screen.x)

\* C5: for a zoom in [2^-12, 2^12], any pan, end # start and a positive screen
\* width, to_coord(to_screen(p.x, p.y)) = p in exact arithmetic
ToCoordInvertsToScreen ==
    (probe.fn = "to_coord" /\ XformDefined) => probe.c = probe.p

\* a point off both axes, sent to another place of the screen at the largest
\* zoom of a panned view, and brought back
ToCoordWitness ==
    /\ probe.fn = "to_coord"
    /\ XformDefined
    /\ graph.zoom = Powi2(12)
    /\ graph.offset.x # I(0)
    /\ probe.p = Vec2(<<1, 3>>, <<5, 7>>)
    /\ probe.s # probe.p
    /\ probe.c = probe.p

-----------------------------------------------------------------------------
(* Line clipping in 3D: Graph::draw_point_3d.  A segment is recorded by    *)
(* its two 3D endpoints, the arguments handed to vec3_to_pos; a          *)
(* non-finite sample is dropped on entry.                                  *)

\* a non-finite f32 is a pair with denominator 0
NAN == <<0, 0>>
INFINITY == <<1, 0>>

is_finite(a) == a[2] # 0

Axes == {"x", "y", "z"}

\* The mutant of ClipAxis: the upper bound is taken on both sides
ClipAxisToEnd(g, v, vi, axis) ==
    IF RLt(vi[axis], g.start) \/ RLt(g.end, vi[axis])
    THEN V3Add(v, V3Scale(V3Sub(vi, v),
                          RDiv(RSub(g.end, v[axis]), RSub(vi[axis], v[axis]))))
    ELSE vi

\* one axis of the clip: vi is moved along the segment from v onto the bound
ClipAxis(g, v, vi, axis) ==
    IF RLt(vi[axis], g.start)
    THEN V3Add(v, V3Scale(V3Sub(vi, v),
                          RDiv(RSub(g.start, v[axis]), RSub(vi[axis], v[axis]))))
    ELSE IF RLt(g.end, vi[axis])
         THEN V3Add(v, V3Scale(V3Sub(vi, v),
                               RDiv(RSub(g.end, v[axis]), RSub(vi[axis], v[axis]))))
         ELSE vi

\* The mutant of Clip: each axis is clipped from the outside endpoint itself
\* and the last clip made is kept
ClipFromEndpoint(g, v, u) ==
    IF ClipAxis(g, v, u, "z") # u
    THEN ClipAxis(g, v, u, "z")
    ELSE IF ClipAxis(g, v, u, "y") # u
         THEN ClipAxis(g, v, u, "y")
         ELSE ClipAxis(g, v, u, "x")

\* the x, y and z clips in sequence, v the endpoint inside the cube
Clip(g, v, u) ==
    ClipAxis(g, v, ClipAxis(g, v, ClipAxis(g, v, u, "x"), "y"), "z")

Inside(g, v) ==
    \A axis \in Axes : RLe(g.start, v[axis]) /\ RLe(v[axis], g.end)

\* the closure `body`: the segment drawn between `last` and the current point
ClipBody(g, v, inside, last) ==
    IF inside /\ last.inside
    THEN <<[from |-> last.v, to |-> v]>>
    ELSE IF inside
         THEN <<[from |-> Clip(g, v, last.v), to |-> v]>>
         ELSE IF last.inside
              THEN <<[from |-> Clip(g, last.v, v), to |-> last.v]>>
              ELSE <<>>

\* The mutant of draw_point_3d: only the first neighbour is joined
draw_point_3d_first_only(g, x, y, z0, a, b) ==
    IF ~is_finite(x) \/ ~is_finite(y) \/ ~is_finite(z0)
    THEN [ret |-> None, rects |-> <<>>, segments |-> <<>>]
    ELSE
    LET v == Vec3(x, y, RAdd(z0, g.offset.z))
        inside == Inside(g, v)
    IN  [ret |-> IF g.lines THEN Some([v |-> v, inside |-> inside]) ELSE None,
         rects |-> IF inside THEN <<v>> ELSE <<>>,
         segments |->
             IF g.lines /\ IsSome(a)
             THEN ClipBody(g, v, inside, Unwrap(a))
             ELSE <<>>]

draw_point_3d(g, x, y, z0, a, b) ==
    IF ~is_finite(x) \/ ~is_finite(y) \/ ~is_finite(z0)
    THEN [ret |-> None, rects |-> <<>>, segments |-> <<>>]
    ELSE
    LET v == Vec3(x, y, RAdd(z0, g.offset.z))
        inside == Inside(g, v)
    IN  [ret |-> IF g.lines THEN Some([v |-> v, inside |-> inside]) ELSE None,
         rects |-> IF inside THEN <<v>> ELSE <<>>,
         segments |->
             IF g.lines
             THEN (IF IsSome(a) THEN ClipBody(g, v, inside, Unwrap(a)) ELSE <<>>)
                  \o (IF IsSome(b) THEN ClipBody(g, v, inside, Unwrap(b)) ELSE <<>>)
             ELSE <<>>]

ClipCoords == {I(-2), <<-1, 2>>, <<1, 2>>, I(3)}

ClipPoints == {Vec3(x, y, z) : x \in ClipCoords, y \in ClipCoords, z \in ClipCoords}

InitClip ==
    /\ \E oz \in {I(0), <<1, 2>>}, lines \in BOOLEAN :
         graph = [GraphNew(<<Cloud3D>>, I(-1), I(1))
                    EXCEPT !.offset = Vec3(I(0), I(0), oz), !.lines = lines]
    /\ panic = "none"
    /\ profile = "release"
    /\ out = Idle("new")
    /\ run = NoRun(graph)
    /\ frames = 0
    /\ probe = NoProbe

\* one iteration of the Coord3D loop: the point is drawn after the last one
DrawPoint(p) ==
    LET a == IF probe.fn = "draw_point_3d" THEN probe.last ELSE None
        r == draw_point_3d(graph, p.x, p.y, p.z, a, None)
    IN  /\ probe' = [fn |-> "draw_point_3d", a |-> a, last |-> r.ret,
                     v |-> Vec3(p.x, p.y, RAdd(p.z, graph.offset.z)),
                     segments |-> r.segments]
        /\ UNCHANGED <<graph, panic, profile, out, run, frames>>

NextClip == \E p \in ClipPoints : DrawPoint(p)

SpecClip == InitClip /\ [][NextClip]_vars

OutsideAxes(g, u) ==
    {axis \in Axes : RLt(u[axis], g.start) \/ RLt(g.end, u[axis])}

\* the last two points drawn: one inside the cube, the other outside on one axis
ClipCase ==
    /\ probe.fn = "draw_point_3d"
    /\ graph.lines
    /\ IsSome(probe.a)
    /\ Unwrap(probe.a).inside # Inside(graph, probe.v)
    /\ LET u == IF Unwrap(probe.a).inside THEN probe.v ELSE Unwrap(probe.a).v
       IN  Cardinality(OutsideAxes(graph, u)) = 1

\* C6: with one endpoint v inside the cube and the other, u, outside on one
\* axis, the clip point lies on the violated bound of that axis and is
\* v + t * (u - v) on the other two, t = (bound - v_axis) / (u_axis - v_axis),
\* whichever of the previous and the current point is the outside one
ClipPointOnBoundary ==
    ClipCase =>
        LET prev == Unwrap(probe.a)
            v == IF prev.inside THEN prev.v ELSE probe.v
            u == IF prev.inside THEN probe.v ELSE prev.v
            axis == CHOOSE ax \in OutsideAxes(graph, u) : TRUE
            bound == IF RLt(u[axis], graph.start) THEN graph.start ELSE graph.end
            t == RDiv(RSub(bound, v[axis]), RSub(u[axis], v[axis]))
        IN  /\ Len(probe.segments) = 1
            /\ probe.segments[1].to = v
            /\ probe.segments[1].from[axis] = bound
            /\ \A o \in Axes \ {axis} :
                 probe.segments[1].from[o] =
                     RAdd(v[o], RMul(t, RSub(u[o], v[o])))

\* the previous point below the cube on z (after the z offset), the current
\* one inside and off the centre: the clip point is neither endpoint
ClipWitness ==
    /\ ClipCase
    /\ graph.offset.z # I(0)
    /\ ~Unwrap(probe.a).inside
    /\ RLt(Unwrap(probe.a).v.z, graph.start)
    /\ probe.segments[1].from # Unwrap(probe.a).v
    /\ probe.segments[1].from # probe.v
    /\ probe.segments[1].from.x # probe.v.x

-----------------------------------------------------------------------------
(* Slices of a Width3D grid: Period, Comma and Slash, the slice modes, and *)
(* the data replaced between frames.                                       *)

\* n samples 1, 2, ..., n in row-major order over [-2, 2] x [-2, 2]
Grid(n) == Width3D([k \in 1..n |-> CReal(I(k))], I(-2), I(-2), I(2), I(2))

\* the empty grid, and the grids of side 1, 2 and 3
SliceDataSets == {<<Grid(0)>>, <<Grid(1)>>, <<Grid(4)>>, <<Grid(9)>>}

SliceModes == {"Slice", "SliceFlatten", "SliceDepth"}

InitSlice == \E d \in SliceDataSets : InitWith(d, I(-2), I(2))

NextSlice ==
    \/ Frame(In0)
    \/ graph.slice < MaxSlice /\ Frame(Key("Period"))
    \/ Frame(Key("Comma"))
    \/ Frame(Key("Slash"))
    \/ \E m \in SliceModes : SetMode(m)
    \/ \E d \in SliceDataSets : SetData(d)

SpecSlice == InitSlice /\ [][NextSlice]_vars

\* the samples the last frame handed to the drawing closure, in order
Drawn ==
    IF out.plotted = <<>>
    THEN <<>>
    ELSE [k \in 1..Len(out.plotted[1]) |-> out.plotted[1][k].c]

\* a frame has rendered the one Width3D dataset in a slice mode
SliceRendered(modes) ==
    /\ out.op = "frame"
    /\ graph.graph_mode \in modes
    /\ Len(graph.data) = 1
    /\ graph.data[1].type = "Width3D"

\* C7: in Slice and SliceFlatten on a len x len grid, slice s draws
\* data[s*len], ..., data[s*len + len - 1] when view_x holds, and
\* data[s], data[s + len], data[s + 2*len], ... when it does not
SliceExtraction ==
    SliceRendered({"Slice", "SliceFlatten"}) =>
        LET data == graph.data[1].data
            len == isqrt(Len(data))
            s == graph.slice
        IN  (len >= 1 /\ Len(data) = len * len) =>
                /\ Len(Drawn) = len
                /\ \A k \in 0..(len - 1) :
                     Drawn[k + 1] = IF graph.view_x
                                    THEN data[s * len + k + 1]
                                    ELSE data[s + k * len + 1]

\* the last row and the last column of the 3 x 3 grid have both been drawn
SliceExtractionWitness ==
    /\ SliceRendered({"Slice", "SliceFlatten"})
    /\ graph.data = <<Grid(9)>>
    /\ graph.slice = 2
    /\ ~graph.view_x
    /\ Drawn = <<CReal(I(3)), CReal(I(6)), CReal(I(9))>>

\* C8: whatever slice is stored and whatever the Width3D dataset (empty and
\* side 1 included), a render in a slice mode raises no error and leaves the
\* slice index within 0..len-1
SliceClampNeverErrors ==
    SliceRendered(SliceModes) =>
        /\ panic = "none"
        /\ graph.slice < isqrt(Len(graph.data[1].data))

-----------------------------------------------------------------------------
(* The domain-coloring texture cache: renders in DomainColoring, the R key *)
(* and the operations that change the data or the filter.                  *)

CacheDataSets == {<<Grid4>>, <<Grid(1)>>}

InitCache == \E d \in CacheDataSets : InitWith(d, I(-2), I(2))

NextCache ==
    \/ Frame(In0)
    \/ Frame(Key("R"))
    \/ \E m \in {"DomainColoring", "Normal"} : SetMode(m)
    \/ \E d \in CacheDataSets : SetData(d)
    \/ ClearData
    \/ PushData(Grid(1))
    \/ \E aa \in BOOLEAN : SetAntiAlias(aa)

SpecCache == InitCache /\ [][NextCache]_vars

HasGrid(data) == \E k \in 1..Len(data) : data[k].type = "Width3D"

\* the samples of the first Width3D dataset, the one a render fills the cache from
FirstGrid(data) ==
    data[CHOOSE k \in 1..Len(data) :
            /\ data[k].type = "Width3D"
            /\ \A j \in 1..(k - 1) : data[j].type # "Width3D"].data

TextureOf(g) ==
    Texture(FirstGrid(g.data), isqrt(Len(FirstGrid(g.data))), g.anti_alias)

\* a frame has rendered a Width3D dataset in DomainColoring
ColoringRendered ==
    /\ out.op = "frame"
    /\ panic = "none"
    /\ graph.graph_mode = "DomainColoring"
    /\ HasGrid(graph.data)

\* C9: set_data leaves the cache absent; a DomainColoring render of a Width3D
\* dataset that finds no texture computes the colours of the current samples
\* and stores the texture; one that finds a texture computes no colour
SetDataRefreshesTexture ==
    /\ out.op = "set_data" => graph.cache = None
    /\ ColoringRendered =>
         IF out.cache_before = None
         THEN /\ graph.cache = Some(TextureOf(graph))
              /\ out.colored = Len(FirstGrid(graph.data))
              /\ out.uploads = 1
         ELSE /\ graph.cache = out.cache_before
              /\ out.colored = 0
              /\ out.uploads = 0

\* the 2 x 2 grid coloured afresh, with the nearest-neighbour filter
SetDataRefreshesWitness ==
    /\ ColoringRendered
    /\ out.cache_before = None
    /\ graph.data = <<Grid4>>
    /\ ~graph.anti_alias
    /\ graph.cache = Some(Texture(Grid4.data, 2, FALSE))
    /\ out.colored = 4

\* C10: a present texture was built from the current data with the current
\* anti_alias; set_data, clear_data, push_data, set_anti_alias and the R key
\* leave the cache absent
CacheCoherence ==
    /\ IsSome(graph.cache) =>
         HasGrid(graph.data) /\ graph.cache = Some(TextureOf(graph))
    /\ out.op \in {"set_data", "clear_data", "push_data", "set_anti_alias"} =>
         graph.cache = None
    /\ (out.op = "frame" /\ "R" \in out.keys) => out.cache_before = None

-----------------------------------------------------------------------------
(* is_3d against the data and the mode.                                    *)

\* the dataset list holds a Width3D or a Coord3D dataset
Has3D(data) ==
    \E k \in 1..Len(data) : data[k].type = "Width3D" \/ data[k].type = "Coord3D"

\* C11: right after Graph::new, set_data, push_data and clear_data, is_3d tells
\* whether the dataset list holds a Width3D or Coord3D dataset
DataOpsRecomputeIs3d ==
    out.op \in {"new", "set_data", "push_data", "clear_data"} =>
        graph.is_3d = Has3D(graph.data)

\* set_mode called with its argument and the state before it recorded
CallSetMode(m) ==
    /\ panic = "none"
    /\ \E g2 \in {set_mode(graph, m)} :
         /\ graph' = g2
         /\ run' = NoRun(g2)
    /\ probe' = [fn |-> "set_mode", mode |-> m, before |-> graph]
    /\ out' = Idle("set_mode")
    /\ UNCHANGED <<panic, profile, frames>>

SetModeDataSets == {<<Curve1D>>, <<Grid4>>, <<Curve1D, Cloud3D>>}

InitSetMode == \E d \in SetModeDataSets : InitWith(d, I(-2), I(2))

\* the view is driven to a state, then set_mode is called on it
NextSetMode ==
    \/ probe.fn = "none" /\ Frame(In0)
    \/ probe.fn = "none" /\ Frame(Key("B"))
    \/ probe.fn = "none" /\ graph.slice < MaxSlice /\ Frame(Key("Period"))
    \/ probe.fn = "none" /\ \E d \in SetModeDataSets : SetData(d)
    \/ probe.fn = "none" /\ ClearData
    \/ probe.fn = "none" /\ \E m \in GraphModes : SetMode(m)
    \/ \E m \in GraphModes : CallSetMode(m)

SpecSetMode == InitSetMode /\ [][NextSetMode]_vars

\* C12: set_mode(m) leaves graph_mode = m, is_3d = false for DomainColoring
\* and Slice and the data-derived value otherwise, and every other field of
\* the Graph (data and cache included) as it was
SetModeEffect ==
    (out.op = "set_mode" /\ probe.fn = "set_mode") =>
        /\ graph.graph_mode = probe.mode
        /\ graph.is_3d = IF probe.mode \in {"DomainColoring", "Slice"}
                         THEN FALSE
                         ELSE Has3D(graph.data)
        /\ \A f \in GraphFields \ {"graph_mode", "is_3d"} :
             graph[f] = probe.before[f]

\* Slice set over 3D data while a texture is cached and the slice index moved
SetModeWitness ==
    /\ out.op = "set_mode"
    /\ probe.fn = "set_mode"
    /\ probe.mode = "Slice"
    /\ probe.before.graph_mode = "DomainColoring"
    /\ Has3D(graph.data)
    /\ IsSome(graph.cache)
    /\ graph.slice > 0
    /\ ~graph.is_3d

\* C13: is_3d is a function of graph_mode and of whether the data holds a 3D
\* dataset: Normal has the data-derived value, DomainColoring and Slice have
\* false, Depth and SliceDepth have true, and a mode met again within a run of
\* B presses (the data unchanged) has the is_3d it had at the start of the run
Is3dFunctionOfMode ==
    /\ graph.graph_mode = "Normal" => graph.is_3d = Has3D(graph.data)
    /\ graph.graph_mode \in {"DomainColoring", "Slice"} => ~graph.is_3d
    /\ graph.graph_mode \in {"Depth", "SliceDepth"} => graph.is_3d
    /\ graph.graph_mode = run.base[1] => graph.is_3d = run.base[2]

-----------------------------------------------------------------------------
(* The colour conversion hsv2rgb as a pure function.                       *)

HsvHues == {I(0), <<1, 2>>, <<5, 2>>, I(3), <<9, 2>>, <<23, 4>>}

HsvSats == {I(0), <<1, 2>>, I(1)}

HsvVals ==
    {I(0), <<1, 255>>, <<1, 3>>, <<1, 2>>, <<2, 3>>, <<9, 10>>, <<254, 255>>,
     <<999, 1000>>, I(1)}

InitHsv == InitWith(<<Grid4>>, I(-2), I(2))

CallHsv(hue, sat, val) ==
    /\ probe' = [fn |-> "hsv2rgb", hue |-> hue, sat |-> sat, val |-> val,
                 rgb |-> hsv2rgb(hue, sat, val)]
    /\ UNCHANGED <<graph, panic, profile, out, run, frames>>

NextHsv == \E hue \in HsvHues, sat \in HsvSats, val \in HsvVals : CallHsv(hue, sat, val)

SpecHsv == InitHsv /\ [][NextHsv]_vars

\* C14: with saturation 0 and v in [0, 1], hsv2rgb returns three equal
\* channels for every hue, each the integer part of 255 * v (the integer t
\* with t <= 255 * v < t + 1), not the nearest integer
GrayTruncates ==
    (probe.fn = "hsv2rgb" /\ probe.sat = I(0)
        /\ RLe(I(0), probe.val) /\ RLe(probe.val, I(1))) =>
        \E t \in 0..255 :
            /\ probe.rgb = <<t, t, t>>
            /\ t * probe.val[2] <= 255 * probe.val[1]
            /\ 255 * probe.val[1] < (t + 1) * probe.val[2]

\* v = 1/2 at a hue of the fourth sector: 127.5 is cut to 127
GrayWitness ==
    /\ probe.fn = "hsv2rgb"
    /\ probe.sat = I(0)
    /\ probe.hue = I(3)
    /\ probe.val = <<1, 2>>
    /\ probe.rgb = <<127, 127, 127>>

-----------------------------------------------------------------------------
(* Polylines in 2D: Graph::draw_point and the Width arm of Graph::plot for *)
(* Normal, DomainColoring and the slice modes.  draw_point tests for a     *)
(* non-finite coordinate before any arithmetic.                            *)

\* Show::real and Show::imag
ShowReal(show) == show \in {"Complex", "Real"}
ShowImag(show) == show \in {"Complex", "Imag"}

\* ui.is_rect_visible(Rect::from_points(&[p, q])): the bounding box of the
\* segment meets the viewport
is_rect_visible(g, p, q) ==
    /\ RLe(IF RLe(p.x, q.x) THEN p.x ELSE q.x, g.screen.x)
    /\ RLe(I(0), IF RLe(p.x, q.x) THEN q.x ELSE p.x)
    /\ RLe(IF RLe(p.y, q.y) THEN p.y ELSE q.y, g.screen.y)
    /\ RLe(I(0), IF RLe(p.y, q.y) THEN q.y ELSE p.y)

\* The mutant of draw_point: a non-finite sample keeps the last point
draw_point_bridging(g, x, y, last) ==
    IF ~is_finite(x) \/ ~is_finite(y)
    THEN [ret |-> last, pos |-> None, rect |-> <<>>, segment |-> <<>>]
    ELSE LET pos == to_screen(g, x, y)
         IN  [ret |-> IF g.lines THEN Some(pos) ELSE None,
              pos |-> Some(pos),
              rect |-> IF /\ RLt(I(-2), pos.x) /\ RLt(pos.x, RAdd(g.screen.x, I(2)))
                          /\ RLt(I(-2), pos.y) /\ RLt(pos.y, RAdd(g.screen.y, I(2)))
                       THEN <<pos>> ELSE <<>>,
              segment |-> IF g.lines /\ IsSome(last)
                             /\ is_rect_visible(g, Unwrap(last), pos)
                          THEN <<[from |-> Unwrap(last), to |-> pos]>> ELSE <<>>]

\* ret: the value returned; pos: the screen position computed; rect: the
\* point drawn; segment: the line drawn
draw_point(g, x, y, last) ==
    IF ~is_finite(x) \/ ~is_finite(y)
    THEN [ret |-> None, pos |-> None, rect |-> <<>>, segment |-> <<>>]
    ELSE LET pos == to_screen(g, x, y)
         IN  [ret |-> IF g.lines THEN Some(pos) ELSE None,
              pos |-> Some(pos),
              rect |-> IF /\ RLt(I(-2), pos.x) /\ RLt(pos.x, RAdd(g.screen.x, I(2)))
                          /\ RLt(I(-2), pos.y) /\ RLt(pos.y, RAdd(g.screen.y, I(2)))
                       THEN <<pos>> ELSE <<>>,
              segment |-> IF g.lines /\ IsSome(last)
                             /\ is_rect_visible(g, Unwrap(last), pos)
                          THEN <<[from |-> Unwrap(last), to |-> pos]>> ELSE <<>>]

\* The mutant of WidthX: the index is divided by the number of samples
WidthXOverLen(i, n, start, end) ==
    RAdd(RMul(RSub(RDiv(I(i), I(n)), <<1, 2>>), RSub(end, start)),
         RDiv(RAdd(start, end), I(2)))

\* (i / (len - 1) - 0.5) * (end - start) + (start + end) / 2; 0 / 0 is NaN
WidthX(i, n, start, end) ==
    IF n = 1
    THEN NAN
    ELSE RAdd(RMul(RSub(RDiv(I(i), I(n - 1)), <<1, 2>>), RSub(end, start)),
              RDiv(RAdd(start, end), I(2)))

\* one draw_point call of the loop, logged with its sample index and channel
Logged(i, chan, x, y, r) ==
    <<[i |-> i, chan |-> chan, x |-> x, y |-> y,
       ret |-> r.ret, pos |-> r.pos, rect |-> r.rect, segment |-> r.segment]>>

\* the loop over the samples from index i on; st holds the last points a and b
\* of the two channels and the calls made so far
RECURSIVE WidthLoop(_, _, _, _)
WidthLoop(g, d, i, st) ==
    IF i >= Len(d.data)
    THEN st
    ELSE LET x == WidthX(i, Len(d.data), d.start, d.end)
             o == to_options(d.data[i + 1])
             real == ShowReal(g.show) /\ IsSome(o[1])
             imag == ShowImag(g.show) /\ IsSome(o[2])
             ra == draw_point(g, x, IF real THEN Unwrap(o[1]) ELSE NAN, st.a)
             rb == draw_point(g, x, IF imag THEN Unwrap(o[2]) ELSE NAN, st.b)
         IN  CHOOSE r \in
               {WidthLoop(g, d, i + 1, s2) : s2 \in
                 {[a |-> IF real THEN ra.ret ELSE None,
                   b |-> IF imag THEN rb.ret ELSE None,
                   calls |-> st.calls
                      \o (IF real THEN Logged(i, "real", x, Unwrap(o[1]), ra) ELSE <<>>)
                      \o (IF imag THEN Logged(i, "imag", x, Unwrap(o[2]), rb) ELSE <<>>)]}}
               : TRUE

PlotWidth(g, d) == WidthLoop(g, d, 0, [a |-> None, b |-> None, calls |-> <<>>]).calls


WidthDataSets ==
    {Curve1D,
     Width(<<CReal(<<1, 2>>), CReal(I(-1))>>, I(-1), I(1)),
     Width(<<CReal(I(-1)), CReal(I(0)), CReal(<<1, 2>>), CReal(I(3))>>, I(-2), I(2)),
     Width(<<CReal(I(0)), CReal(NAN), CReal(I(1)), CReal(I(2))>>, I(0), I(3)),
     Width(<<CComplex(I(0), I(1)), CImag(<<1, 2>>), CComplex(I(1), INFINITY),
             CComplex(I(2), I(0))>>, I(0), I(3)),
     Width(<<CReal(I(1))>>, I(0), I(2)),
     Width(<<>>, I(0), I(2))}

WidthZooms == {<<1, 2>>, I(1), I(4)}

InitWidth ==
    /\ \E dom \in XformDomains, zoom \in WidthZooms, offset \in XformOffsets,
          lines \in BOOLEAN, show \in {"Complex", "Real", "Imag"},
          d \in WidthDataSets :
            graph = [XformView(dom, Rect0, zoom, offset)
                        EXCEPT !.data = <<d>>, !.lines = lines, !.show = show]
    /\ panic = "none"
    /\ profile = "release"
    /\ out = Idle("new")
    /\ run = NoRun(graph)
    /\ frames = 0
    /\ probe = NoProbe

\* the Width arm of the render pass on the first dataset
DrawWidth ==
    /\ graph.data[1].type = "Width"
    /\ graph.graph_mode \in
         {"Normal", "DomainColoring", "Slice", "SliceFlatten", "SliceDepth"}
    /\ probe' = [fn |-> "plot_width", calls |-> PlotWidth(graph, graph.data[1])]
    /\ UNCHANGED <<graph, panic, profile, out, run, frames>>

NextWidth == DrawWidth

SpecWidth == InitWidth /\ [][NextWidth]_vars

\* the real samples of the dataset drawn are all present and finite, there
\* are at least two of them, and the dataset and the view run left to right
RealCurveDrawn ==
    /\ probe.fn = "plot_width"
    /\ graph.graph_mode = "Normal"
    /\ ShowReal(graph.show)
    /\ Len(graph.data[1].data) >= 2
    /\ \A k \in 1..Len(graph.data[1].data) :
         graph.data[1].data[k].t = "Real" /\ is_finite(graph.data[1].data[k].y)
    /\ RLt(graph.data[1].start, graph.data[1].end)
    /\ RLt(graph.start, graph.end)
    /\ RLt(I(0), graph.zoom)
    /\ RLt(I(0), graph.screen.x)

\* C15: n >= 2 finite real samples of a Width dataset over [start, end] in
\* Normal mode: sample i is at x = start + i * (end - start) / (n - 1), the
\* screen x grows strictly with i and the screen y falls strictly as the
\* sample value grows
WidthPlacement ==
    RealCurveDrawn =>
        LET d == graph.data[1]
            n == Len(d.data)
            c == probe.calls
        IN  /\ Len(c) = n
            /\ \A k \in 1..n :
                 /\ c[k].i = k - 1 /\ c[k].chan = "real"
                 /\ c[k].y = d.data[k].y
                 /\ c[k].x = RAdd(d.start, RDiv(RMul(I(k - 1), RSub(d.end, d.start)),
                                                I(n - 1)))
                 /\ IsSome(c[k].pos)
            /\ \A k \in 1..n, l \in 1..n :
                 /\ k < l => RLt(Unwrap(c[k].pos).x, Unwrap(c[l].pos).x)
                 /\ RLt(c[k].y, c[l].y) =>
                      RLt(Unwrap(c[l].pos).y, Unwrap(c[k].pos).y)

\* the samples [0, 1, 0] over [0, 2] at zoom 1 and no pan: high, low, high
WidthPlacementWitness ==
    /\ RealCurveDrawn
    /\ graph.data = <<Curve1D>>
    /\ graph.zoom = I(1)
    /\ graph.offset = Vec3(I(0), I(0), I(0))
    /\ RLt(Unwrap(probe.calls[2].pos).y, Unwrap(probe.calls[1].pos).y)
    /\ RLt(Unwrap(probe.calls[2].pos).y, Unwrap(probe.calls[3].pos).y)
    /\ Unwrap(probe.calls[1].pos).y = Unwrap(probe.calls[3].pos).y


\* sample i (from 0) of dataset d is present on the channel and finite
SampleOk(d, i, chan) ==
    /\ i \in 0..(Len(d.data) - 1)
    /\ LET o == to_options(d.data[i + 1])
           v == IF chan = "real" THEN o[1] ELSE o[2]
       IN  IsSome(v) /\ is_finite(Unwrap(v))

\* the logged calls made for sample i on the channel
CallsOf(i, chan) ==
    {k \in 1..Len(probe.calls) : probe.calls[k].i = i /\ probe.calls[k].chan = chan}

ChannelShown(chan) ==
    IF chan = "real" THEN ShowReal(graph.show) ELSE ShowImag(graph.show)

\* C19: with lines enabled, a segment of a channel joins only two consecutive
\* samples that are both present on the channel and finite; a non-finite or
\* absent sample gives no point and no segment, and every finite sample after
\* it is still visited and placed
NonFiniteBreaksLine ==
    (probe.fn = "plot_width" /\ graph.lines) =>
        LET d == graph.data[1]
            c == probe.calls
        IN  \A chan \in {"real", "imag"} :
              /\ \A k \in 1..Len(c) :
                   (c[k].chan = chan /\ c[k].segment # <<>>) =>
                     /\ SampleOk(d, c[k].i - 1, chan)
                     /\ SampleOk(d, c[k].i, chan)
                     /\ \E l \in CallsOf(c[k].i - 1, chan) :
                          c[l].pos = Some(c[k].segment[1].from)
                     /\ c[k].pos = Some(c[k].segment[1].to)
              /\ \A i \in 0..(Len(d.data) - 1) :
                   ~SampleOk(d, i, chan) =>
                     /\ \A k \in CallsOf(i, chan) :
                          c[k].rect = <<>> /\ c[k].segment = <<>> /\ c[k].ret = None
                     /\ \A j \in (i + 1)..(Len(d.data) - 1) :
                          (SampleOk(d, j, chan) /\ ChannelShown(chan)) =>
                            /\ Cardinality(CallsOf(j, chan)) = 1
                            /\ \A k \in CallsOf(j, chan) :
                                 /\ c[k].pos = Some(to_screen(graph, c[k].x, c[k].y))
                                 /\ c[k].ret = c[k].pos

\* a NaN at sample 1 of four: no segment reaches sample 2, one joins 2 and 3
NonFiniteWitness ==
    /\ probe.fn = "plot_width" /\ graph.lines /\ graph.show = "Real"
    /\ ~SampleOk(graph.data[1], 1, "real")
    /\ SampleOk(graph.data[1], 0, "real")
    /\ \E k \in CallsOf(2, "real") :
         probe.calls[k].segment = <<>> /\ probe.calls[k].rect # <<>>
    /\ \E k \in CallsOf(3, "real") : probe.calls[k].segment # <<>>


-----------------------------------------------------------------------------
(* Gestures: one frame with the view before it kept for comparison.        *)

\* zoom and reset frames of one behaviour
MaxGestures == 2

\* a frame that records the graph it started from and its input
ProbedFrame(inp) ==
    /\ FrameCore(inp)
    /\ probe' = [fn |-> "frame", before |-> graph, inp |-> inp]
    /\ UNCHANGED profile

ZoomGestures ==
    {Key("Q"), Key("E"), Scroll(0, 512), Scroll(0, -256),
     Pinch(I(2), 0, 0), Pinch(<<1, 2>>, 0, 0)}

PointerFrames == {In0, PointerAt(In0, 100, 50), PointerAt(In0, 700, 500)}

ResetFrames ==
    {Key("T"),
     PointerAt(Key("T"), 100, 50),
     [PointerAt(In0, 700, 500) EXCEPT !.keys = {"T", "E"}],
     [Scroll(0, 512) EXCEPT !.keys = {"T", "Q"}],
     [Drag(512, 256) EXCEPT !.keys = {"T", "B", "Period", "Slash", "I"}],
     [Pinch(I(2), 64, 64) EXCEPT !.keys = {"T", "Quote", "F"}]}

GestureSetups ==
    {<<<<Curve1D>>, I(-2), I(2)>>, <<<<Curve1D>>, I(0), I(2)>>,
     <<<<Cloud3D>>, I(-2), I(2)>>}

InitGesture == \E s \in GestureSetups : InitWith(s[1], s[2], s[3])

NextGesture ==
    \/ \E inp \in PointerFrames : ProbedFrame(inp) /\ UNCHANGED frames
    \/ \E inp \in ZoomGestures :
         frames < MaxGestures /\ ProbedFrame(inp) /\ frames' = frames + 1
    \/ \E inp \in ResetFrames :
         frames < MaxGestures /\ ProbedFrame(inp) /\ frames' = frames + 1

SpecGesture == InitGesture /\ [][NextGesture]_vars

\* a frame that carried one zoom gesture has ended without a panic
ZoomGestureDone ==
    /\ probe.fn = "frame"
    /\ probe.inp \in ZoomGestures
    /\ panic = "none"

\* the anchor as documented: the pointer once it has moved, else the middle
\* of the viewport
DocumentedAnchor(g) ==
    IF g.mouse_moved THEN Unwrap(g.mouse_position) ELSE V2Div(g.screen, I(2))

\* the screen position after the frame of the data point that was at p before
Carried(p) ==
    LET c == to_coord(probe.before, p)
    IN  to_screen(graph, c.x, c.y)

\* a 2D zoom step the zoom bound admitted, on a view that was already laid out
ZoomStep2D ==
    /\ ZoomGestureDone
    /\ ~probe.before.is_3d
    /\ probe.before.screen = Rect0
    /\ graph.zoom # probe.before.zoom

\* C16: an admitted 2D zoom step (Q, E, scroll, pinch) keeps the data point
\* at the anchor where it was: the pointer once it has moved, else the
\* middle of the viewport, for every domain
AnchorStaysFixed ==
    ZoomStep2D => Carried(DocumentedAnchor(probe.before)) = DocumentedAnchor(probe.before)


\* C17: while is_3d, each zoom gesture (pinch, scroll wheel, Q, E) scales
\* box_size and leaves zoom and offset.x / offset.y unchanged
Zoom3DScalesBox ==
    (ZoomGestureDone /\ probe.before.is_3d) =>
        /\ graph.box_size # probe.before.box_size
        /\ graph.zoom = probe.before.zoom
        /\ graph.offset.x = probe.before.offset.x
        /\ graph.offset.y = probe.before.offset.y


\* a frame in which T was pressed has ended without a panic
ResetFrameDone ==
    /\ probe.fn = "frame"
    /\ "T" \in probe.inp.keys
    /\ panic = "none"

\* the same frame from the same graph with T not pressed
WithoutReset ==
    plot_main(Work(probe.before), [probe.inp EXCEPT !.keys = @ \ {"T"}])

ResetLeavesAlone ==
    {"graph_mode", "is_3d", "slice", "show", "view_x",
     "disable_lines", "disable_axis", "disable_coord"}

\* C18: at the end of a frame in which T is pressed, whatever else the frame
\* carries, offset = 0, zoom = 1, theta = phi = pi / 6, box_size = sqrt(3)
\* and mouse_moved = false; graph_mode, is_3d, slice, show, view_x and the
\* disable_* flags are what the frame gives them without the reset
ResetRestoresView ==
    ResetFrameDone =>
        /\ graph.offset = Vec3(I(0), I(0), I(0))
        /\ graph.zoom = I(1)
        /\ graph.theta = RDiv(PI, I(6))
        /\ graph.phi = RDiv(PI, I(6))
        /\ graph.box_size = SQRT3
        /\ graph.mouse_moved = FALSE
        /\ \A f \in ResetLeavesAlone : graph[f] = WithoutReset[f]

\* T together with a pointer sample, after the pointer has moved and the view
\* has been zoomed
ResetWitness ==
    /\ ResetFrameDone
    /\ probe.before.mouse_moved
    /\ probe.before.zoom # I(1)
    /\ IsSome(probe.inp.latest_pos)
    /\ probe.inp.latest_pos # probe.before.mouse_position
    /\ graph.mouse_position = probe.inp.latest_pos
    /\ ~graph.mouse_moved
    /\ graph.zoom = I(1)


-----------------------------------------------------------------------------
(* Line clipping in 3D with both neighbours supplied, as the grid loops do. *)

\* inside, inside, outside on x, outside on x and y, below on z, on a corner
NeighbourPoints ==
    {Vec3(I(0), I(0), I(0)), Vec3(<<1, 2>>, <<-1, 2>>, I(0)),
     Vec3(I(3), I(0), I(0)), Vec3(I(-2), I(3), I(0)),
     Vec3(I(0), I(0), I(-2)), Vec3(I(1), I(1), <<1, 2>>)}

\* a neighbour as an earlier call returned it, or none
Neighbours(g) ==
    {None} \cup {draw_point_3d(g, q.x, q.y, q.z, None, None).ret : q \in NeighbourPoints}

DrawJoined(p, a, b) ==
    /\ \E r \in {draw_point_3d(graph, p.x, p.y, p.z, a, b)} :
         probe' = [fn |-> "draw_point_3d_ab", a |-> a, b |-> b,
                   v |-> Vec3(p.x, p.y, RAdd(p.z, graph.offset.z)),
                   ret |-> r.ret, segments |-> r.segments]
    /\ UNCHANGED <<graph, panic, profile, out, run, frames>>

NextJoin ==
    \E p \in NeighbourPoints, a \in Neighbours(graph), b \in Neighbours(graph) :
        DrawJoined(p, a, b)

SpecJoin == InitClip /\ [][NextJoin]_vars

\* the segments a supplied neighbour calls for: one when it or the current
\* point is inside the cube, none when both are outside
Joins(n) ==
    IF IsSome(n) /\ (Unwrap(n).inside \/ Inside(graph, probe.v)) THEN 1 ELSE 0

BothInside(n) == IsSome(n) /\ Unwrap(n).inside /\ Inside(graph, probe.v)

\* C20: with lines enabled, each supplied neighbour gets exactly one segment
\* when it or the current point is inside the cube (z after adding offset.z)
\* and none when both are outside; with both inside the segment joins the
\* two points unclipped
OneSegmentPerNeighbour ==
    (probe.fn = "draw_point_3d_ab" /\ graph.lines) =>
        /\ Len(probe.segments) = Joins(probe.a) + Joins(probe.b)
        /\ BothInside(probe.a) =>
             probe.segments[1] = [from |-> Unwrap(probe.a).v, to |-> probe.v]
        /\ BothInside(probe.b) =>
             probe.segments[Joins(probe.a) + 1] =
                 [from |-> Unwrap(probe.b).v, to |-> probe.v]

\* the first neighbour inside, the second outside, the current point inside:
\* one unclipped and one clipped segment
JoinWitness ==
    /\ probe.fn = "draw_point_3d_ab" /\ graph.lines
    /\ BothInside(probe.a)
    /\ IsSome(probe.b) /\ ~Unwrap(probe.b).inside
    /\ Len(probe.segments) = 2
    /\ probe.segments[1].from = Unwrap(probe.a).v
    /\ probe.segments[2].from # Unwrap(probe.b).v
    /\ Inside(graph, probe.segments[2].from)


-----------------------------------------------------------------------------
(* Grid surfaces: the Width3D arm of Graph::plot for Normal, Flatten and   *)
(* Depth.  Each vertex is drawn after its column and its row neighbour.    *)

\* The mutant of RowEnd: the finished row is copied and not emptied
RowEndCloned(i, len, last, cur) ==
    IF i = len - 1 THEN <<cur, cur>> ELSE <<last, cur>>

\* after the push: at the end of a row, last = std::mem::take(&mut cur)
RowEnd(i, len, last, cur) ==
    IF i = len - 1 THEN <<cur, <<>>>> ELSE <<last, cur>>

\* one draw_point_3d call of the loop, logged with its vertex and channel
Logged3D(i, j, chan, a, b, r) ==
    <<[i |-> i, j |-> j, chan |-> chan, a |-> a, b |-> b,
       ret |-> r.ret, segments |-> r.segments]>>

\* the loop over the samples from index k on; st holds the rows last and cur
\* of the real channel, lasti and curi of the imaginary one, and the calls
RECURSIVE SurfaceLoop(_, _, _, _)
SurfaceLoop(g, d, k, st) ==
    IF k >= Len(d.data)
    THEN st
    ELSE LET len == isqrt(Len(d.data))
             i == k % len
             j == k \div len
             x == WidthX(i, len, d.start_x, d.end_x)
             y == WidthX(j, len, d.start_y, d.end_y)
             o == to_options(d.data[k + 1])
             real == ShowReal(g.show) /\ IsSome(o[1])
             imag == ShowImag(g.show) /\ IsSome(o[2])
             a == IF i = 0 THEN None ELSE st.cur[i]
             b == IF j = 0 THEN None ELSE st.last[i + 1]
             ai == IF i = 0 THEN None ELSE st.curi[i]
             bi == IF j = 0 THEN None ELSE st.lasti[i + 1]
         IN  CHOOSE r \in
               {SurfaceLoop(g, d, k + 1, s2) : s2 \in
                 {[last |-> RowEnd(i, len, st.last, Append(st.cur, p))[1],
                   cur |-> RowEnd(i, len, st.last, Append(st.cur, p))[2],
                   lasti |-> RowEnd(i, len, st.lasti, Append(st.curi, q))[1],
                   curi |-> RowEnd(i, len, st.lasti, Append(st.curi, q))[2],
                   calls |-> st.calls
                      \o (IF real
                          THEN Logged3D(i, j, "real", a, b,
                                 draw_point_3d(g, x, y, Unwrap(o[1]), a, b))
                          ELSE <<>>)
                      \o (IF imag
                          THEN Logged3D(i, j, "imag", ai, bi,
                                 draw_point_3d(g, x, y, Unwrap(o[2]), ai, bi))
                          ELSE <<>>)] :
                   p \in {IF real
                          THEN draw_point_3d(g, x, y, Unwrap(o[1]), a, b).ret
                          ELSE None},
                   q \in {IF imag
                          THEN draw_point_3d(g, x, y, Unwrap(o[2]), ai, bi).ret
                          ELSE None}}}
               : TRUE

PlotSurface(g, d) ==
    SurfaceLoop(g, d, 0, [last |-> <<>>, cur |-> <<>>, lasti |-> <<>>,
                          curi |-> <<>>, calls |-> <<>>]).calls

\* a 3 x 3 grid with a NaN, an absent real part and an absent imaginary part
SurfaceHoles ==
    Width3D(<<CComplex(I(0), I(1)), CComplex(I(1), I(0)), CReal(I(3)),
              CComplex(NAN, I(1)), CImag(I(-1)), CComplex(I(1), I(1)),
              CComplex(I(-1), INFINITY), CComplex(I(0), I(-3)), CReal(I(1))>>,
            I(-2), I(-2), I(2), I(2))

\* five samples: two rows of two and one more vertex
SurfaceRagged ==
    Width3D(<<CReal(I(0)), CReal(I(1)), CReal(I(-1)), CReal(I(0)), CReal(I(1))>>,
            I(-2), I(-2), I(2), I(2))

SurfaceDataSets ==
    {Grid4, SurfaceHoles, SurfaceRagged,
     Width3D(<<CReal(I(0))>>, I(-2), I(-2), I(2), I(2)),
     Width3D(<<>>, I(-2), I(-2), I(2), I(2))}

InitSurface ==
    /\ \E d \in SurfaceDataSets, oz \in {I(0), <<1, 2>>}, lines \in BOOLEAN,
          show \in {"Complex", "Real", "Imag"},
          mode \in {"Normal", "Flatten", "Depth"} :
            graph = [GraphNew(<<d>>, I(-2), I(2))
                       EXCEPT !.offset = Vec3(I(0), I(0), oz), !.lines = lines,
                              !.show = show, !.graph_mode = mode]
    /\ panic = "none"
    /\ profile = "release"
    /\ out = Idle("new")
    /\ run = NoRun(graph)
    /\ frames = 0
    /\ probe = NoProbe

\* the surface arm of the render pass on the first dataset
DrawSurface ==
    /\ graph.data[1].type = "Width3D"
    /\ graph.graph_mode \in {"Flatten", "Depth", "Normal"}
    /\ probe' = [fn |-> "plot_surface", calls |-> PlotSurface(graph, graph.data[1])]
    /\ UNCHANGED <<graph, panic, profile, out, run, frames>>

NextSurface == DrawSurface

SpecSurface == InitSurface /\ [][NextSurface]_vars

\* what the call for vertex (i, j) of the channel returned; none when the
\* vertex was skipped
VertexRet(i, j, chan) ==
    LET ks == {k \in 1..Len(probe.calls) :
                 probe.calls[k].i = i /\ probe.calls[k].j = j
                 /\ probe.calls[k].chan = chan}
    IN  IF ks = {} THEN None ELSE probe.calls[CHOOSE k \in ks : TRUE].ret

\* sample (i, j) of the grid is present on the channel, shown and finite
VertexOk(i, j, chan) ==
    LET d == graph.data[1]
        len == isqrt(Len(d.data))
        k == j * len + i
    IN  /\ i \in 0..(len - 1) /\ k < Len(d.data)
        /\ ChannelShown(chan)
        /\ len > 1
        /\ LET o == to_options(d.data[k + 1])
               v == IF chan = "real" THEN o[1] ELSE o[2]
           IN  IsSome(v) /\ is_finite(Unwrap(v))

\* C21: on a grid surface the vertex (i, j) is evaluated against the vertex
\* (i - 1, j) when i > 0 and (i, j - 1) when j > 0, both of its own channel,
\* never against the end of the previous row, and a skipped neighbour gives
\* no segment
SurfaceNeighbours ==
    probe.fn = "plot_surface" =>
        \A k \in 1..Len(probe.calls) :
            LET c == probe.calls[k]
            IN  /\ c.a = (IF c.i > 0 THEN VertexRet(c.i - 1, c.j, c.chan) ELSE None)
                /\ c.b = (IF c.j > 0 THEN VertexRet(c.i, c.j - 1, c.chan) ELSE None)
                /\ IsSome(c.a) => VertexOk(c.i - 1, c.j, c.chan)
                /\ IsSome(c.b) => VertexOk(c.i, c.j - 1, c.chan)
                /\ Len(c.segments) <= (IF IsSome(c.a) THEN 1 ELSE 0)
                                      + (IF IsSome(c.b) THEN 1 ELSE 0)

\* a vertex at the start of the second row, after a full first row: it has
\* the row neighbour only; a vertex with two segments; and a vertex whose
\* column neighbour was skipped
SurfaceWitness ==
    /\ probe.fn = "plot_surface"
    /\ graph.lines
    /\ \E k \in 1..Len(probe.calls) :
         /\ probe.calls[k].i = 0 /\ probe.calls[k].j = 1
         /\ probe.calls[k].a = None
         /\ IsSome(probe.calls[k].b)
         /\ IsSome(VertexRet(isqrt(Len(graph.data[1].data)) - 1, 0, probe.calls[k].chan))
    /\ \E k \in 1..Len(probe.calls) : Len(probe.calls[k].segments) = 2
    /\ \E k \in 1..Len(probe.calls) :
         /\ probe.calls[k].i > 0
         /\ probe.calls[k].a = None
         /\ ~VertexOk(probe.calls[k].i - 1, probe.calls[k].j, probe.calls[k].chan)


-----------------------------------------------------------------------------
(* SliceDepth against Slice: the sequence taken from the grid.             *)

\* C22: in SliceDepth on a len x len grid the samples drawn are the sequence
\* Slice draws: the row of the clamped slice when view_x holds, the
\* stride-len column of the clamped slice when it does not
SliceDepthFollowsViewX ==
    (SliceRendered({"SliceDepth"}) /\ panic = "none") =>
        LET data == graph.data[1].data
            len == isqrt(Len(data))
            s == graph.slice
        IN  (len >= 1 /\ Len(data) = len * len) =>
                /\ Len(Drawn) = len
                /\ \A k \in 0..(len - 1) :
                     Drawn[k + 1] = IF graph.view_x
                                    THEN data[s * len + k + 1]
                                    ELSE data[s + k * len + 1]


-----------------------------------------------------------------------------
(* Pointer tracking across pointer samples, resets and zoom inputs.        *)

\* the frame started with no stored position, or T cleared it
PositionCleared ==
    probe.before.mouse_position = None \/ "T" \in probe.inp.keys

\* C23: mouse_moved implies a stored mouse_position in every state, so the
\* pointer-anchored zoom never unwraps an absent position; the first sample
\* (also the first after a reset) stores the position with mouse_moved false,
\* and only a later sample at another position sets mouse_moved
PointerTracked ==
    /\ graph.mouse_moved => IsSome(graph.mouse_position)
    /\ panic # "unwrap_none"
    /\ (probe.fn = "frame" /\ panic = "none") =>
         /\ (PositionCleared /\ IsSome(probe.inp.latest_pos)) =>
              graph.mouse_position = probe.inp.latest_pos /\ ~graph.mouse_moved
         /\ (graph.mouse_moved /\ ~probe.before.mouse_moved) =>
              /\ ~PositionCleared
              /\ IsSome(probe.inp.latest_pos)
              /\ probe.inp.latest_pos # probe.before.mouse_position
              /\ graph.mouse_position = probe.inp.latest_pos

\* a 2D zoom step anchored at the pointer has read the stored position
PointerAnchorRead ==
    /\ ZoomStep2D
    /\ probe.before.mouse_moved
    /\ IsSome(probe.before.mouse_position)
    /\ graph.mouse_moved


-----------------------------------------------------------------------------
(* The size of the 3D box: the ';' and ''' keys and the pinch gesture.     *)

\* the largest box_size from which ''' is still pressed
MaxBox == 3

BoxPinches == {Pinch(I(2), 0, 0), Pinch(<<1, 2>>, 0, 0), Pinch(<<5, 4>>, 0, 0)}

InitBox == InitWith(<<Cloud3D>>, I(-2), I(2))

NextBox ==
    \/ ProbedFrame(Key("Semicolon")) /\ UNCHANGED frames
    \/ RLt(graph.box_size, I(MaxBox)) /\ ProbedFrame(Key("Quote")) /\ UNCHANGED frames
    \/ ProbedFrame([In0 EXCEPT !.keys = {"Semicolon", "Quote"}]) /\ UNCHANGED frames
    \/ \E inp \in BoxPinches :
         frames < MaxGestures /\ ProbedFrame(inp) /\ frames' = frames + 1

SpecBox == InitBox /\ [][NextBox]_vars

\* b is one of 1, sqrt(2), sqrt(3) or at least 0.1 away from each, and > 0
BoxSettled(b) ==
    /\ RLt(I(0), b)
    /\ \A t \in {I(1), SQRT2, SQRT3} : b = t \/ RLe(TENTH, RAbs(RSub(b, t)))

\* a frame in 3D has changed box_size
BoxChanged ==
    /\ probe.fn = "frame"
    /\ probe.before.is_3d
    /\ graph.box_size # probe.before.box_size

\* C24: after any input that changes box_size (';', ''' or a pinch in 3D) it
\* is exactly 1, sqrt(2) or sqrt(3), or at distance >= 0.1 from each, and > 0
BoxSizeSnapped ==
    BoxChanged => BoxSettled(graph.box_size)


-----------------------------------------------------------------------------
(* The render pass against the view state the input pass left.             *)

RenderDataSets == {<<Grid(4)>>, <<Grid(9)>>, <<Curve1D>>, <<Cloud3D>>}

InitRender == \E d \in RenderDataSets : InitWith(d, I(-2), I(2))

NextRender ==
    \/ ProbedFrame(In0) /\ UNCHANGED frames
    \/ graph.slice < MaxSlice /\ ProbedFrame(Key("Period")) /\ UNCHANGED frames
    \/ ProbedFrame(Key("B")) /\ UNCHANGED frames
    \/ ProbedFrame(Key("Slash")) /\ UNCHANGED frames
    \/ ProbedFrame(Key("I")) /\ UNCHANGED frames

SpecRender == InitRender /\ [][NextRender]_vars

\* the graph as keybinds left it in the last frame, before any drawing
AfterInput == keybinds(Work(probe.before), probe.inp)

\* the view-state fields other than slice
ViewFields ==
    {"offset", "zoom", "theta", "phi", "box_size", "view_x", "show",
     "graph_mode", "is_3d", "lines", "anti_alias", "scale_axis",
     "disable_lines", "disable_axis", "disable_coord",
     "mouse_position", "mouse_moved", "last_interact"}

\* C25 as stated: the render pass leaves every view-state field as the input
\* pass left it, slice included; it writes the cached texture only
RenderLeavesViewState ==
    probe.fn = "frame" =>
        /\ \A f \in ViewFields : graph[f] = AfterInput[f]
        /\ graph.slice = AfterInput.slice

\* C25: the render pass leaves every view-state field as the input pass left
\* it except slice, which it may lower and never raises; it writes slice and
\* the cached texture only
RenderWritesSliceAndCache ==
    probe.fn = "frame" =>
        /\ \A f \in ViewFields : graph[f] = AfterInput[f]
        /\ graph.slice <= AfterInput.slice
        /\ graph.data = AfterInput.data
        /\ graph.start = AfterInput.start /\ graph.end = AfterInput.end

\* a render in a slice mode has lowered the slice the input pass stored
RenderWitness ==
    /\ probe.fn = "frame"
    /\ panic = "none"
    /\ graph.graph_mode \in SliceModes
    /\ graph.slice < AfterInput.slice
    /\ graph.slice = isqrt(Len(graph.data[1].data)) - 1


-----------------------------------------------------------------------------
(* Domain coloring of several grids.                                       *)

Grids(data) == {k \in 1..Len(data) : data[k].type = "Width3D"}

\* C26: in DomainColoring with two or more Width3D datasets, each is painted
\* with a texture computed from its own samples, on the first frame and on
\* the frames after it
OwnTexturePerGrid ==
    (ColoringRendered /\ Cardinality(Grids(graph.data)) >= 2) =>
        \A k \in Grids(graph.data) :
            out.plotted[k] =
                <<[i |-> 0,
                   image |-> Texture(graph.data[k].data,
                                     isqrt(Len(graph.data[k].data)),
                                     graph.anti_alias)]>>


-----------------------------------------------------------------------------
(* Grids whose sample count is not a perfect square.                       *)

\* grids of 2, 5 and 8 samples, and the 3 x 3 grid
RaggedDataSets == {<<Grid(2)>>, <<Grid(5)>>, <<Grid(8)>>, <<Grid(9)>>}

InitRagged == \E d \in RaggedDataSets : InitWith(d, I(-2), I(2))

NextRagged ==
    \/ Frame(In0)
    \/ graph.slice < MaxSlice /\ Frame(Key("Period"))
    \/ Frame(Key("Comma"))
    \/ Frame(Key("Slash"))
    \/ \E m \in {"Slice", "SliceFlatten"} : SetMode(m)
    \/ \E d \in RaggedDataSets : SetData(d)

SpecRagged == InitRagged /\ [][NextRagged]_vars

\* the least len with len * len >= n
CeilSqrt(n) == IF isqrt(n) * isqrt(n) = n THEN isqrt(n) ELSE isqrt(n) + 1

\* C27: for any sample count n of a Width3D dataset the grid side is
\* len = ceil(sqrt(n)), and the row slice and the column slice drawn in Slice
\* and SliceFlatten hold exactly len samples, all of them samples of the data
GridSideIsCeil ==
    (SliceRendered({"Slice", "SliceFlatten"}) /\ panic = "none") =>
        LET data == graph.data[1].data
            len == CeilSqrt(Len(data))
        IN  /\ Len(Drawn) = len
            /\ graph.slice <= len - 1
            /\ \A k \in 1..Len(Drawn) : \E j \in 1..Len(data) : Drawn[k] = data[j]


-----------------------------------------------------------------------------
(* The sequential clip with several axes violated at once.                 *)

\* the last two points drawn: one inside the cube, the other outside on two
\* or three axes
ClipCaseSeveral ==
    /\ probe.fn = "draw_point_3d"
    /\ graph.lines
    /\ IsSome(probe.a)
    /\ Unwrap(probe.a).inside # Inside(graph, probe.v)
    /\ LET u == IF Unwrap(probe.a).inside THEN probe.v ELSE Unwrap(probe.a).v
       IN  Cardinality(OutsideAxes(graph, u)) >= 2

\* p = v + t * (u - v) for one t with 0 <= t <= 1, t read off the axis ax
OnSegmentBy(p, v, u, ax) ==
    LET t == RDiv(RSub(p[ax], v[ax]), RSub(u[ax], v[ax]))
    IN  /\ RLe(I(0), t) /\ RLe(t, I(1))
        /\ \A o \in Axes : p[o] = RAdd(v[o], RMul(t, RSub(u[o], v[o])))

\* C28: with v inside the cube and the other endpoint outside on two or
\* three axes, the x, y, z clips in sequence end at a point of the segment
\* whose three coordinates are within [start, end]
SequentialClipInCube ==
    ClipCaseSeveral =>
        LET prev == Unwrap(probe.a)
            v == IF prev.inside THEN prev.v ELSE probe.v
            u == IF prev.inside THEN probe.v ELSE prev.v
            ax == CHOOSE o \in OutsideAxes(graph, u) : TRUE
        IN  /\ Len(probe.segments) = 1
            /\ probe.segments[1].to = v
            /\ Inside(graph, probe.segments[1].from)
            /\ OnSegmentBy(probe.segments[1].from, v, u, ax)

\* the current point outside on all three axes, the previous one inside: the
\* clip point is on a face of the cube and strictly between the two points
SequentialClipWitness ==
    /\ ClipCaseSeveral
    /\ Unwrap(probe.a).inside
    /\ Cardinality(OutsideAxes(graph, probe.v)) = 3
    /\ probe.segments[1].from # probe.v
    /\ probe.segments[1].from # Unwrap(probe.a).v
    /\ \E o \in Axes : probe.segments[1].from[o] \in {graph.start, graph.end}
    /\ \E o \in Axes : probe.segments[1].from[o] \notin {graph.start, graph.end}

=============================================================================
